---- MODULE Spec2Model ----
(***************************************************************************)
(* The Garmin Connect -> Google Fit steps syncer                           *)
(* (src/garmin-steps-syncer/garmin_steps_to_google_fit.py) as a state      *)
(* machine: one run of the script is StartRun, then one FetchDay and one   *)
(* branch action per loop iteration, then Persist.  Runs repeat, each      *)
(* reading the watermark from GARMIN_STEPS_LAST_STARTGMT.                  *)
(*                                                                         *)
(* Time.  An instant is a number of milliseconds since 00:00 UTC of day 0  *)
(* of the model's calendar.  A datetime string in the script's format      *)
(* "%Y-%m-%dT%H:%M:%S.%f" is represented by the instant it denotes when    *)
(* read as UTC, and by BadString when strptime rejects it.                 *)
(***************************************************************************)
EXTENDS Integers, Sequences, FiniteSets, Bags, TLC

\* ------------------------------------------------------------------ bounds
\* The local days of the model's calendar are 1..MaxDay.
MaxDay == 2
\* Entries the source holds in total, over all days.
MaxEntries == 2
\* Runs of the script are not bounded: the source and the calendar are.

\* --------------------------------------------------------------- calendar
MsPerSecond == 1000
MsPerMinute == 60 * MsPerSecond
MsPerHour == 60 * MsPerMinute
MsPerDay == 24 * MsPerHour
\* TAIPEI_TIMEZONE = timezone(timedelta(hours=8))
TaipeiOffset == 8 * MsPerHour
\* Garmin's buckets are 15 minutes long.
BucketMs == 15 * MsPerMinute

Days == 1..MaxDay

\* Local (UTC+8) times of day: the first bucket of a day, a midday bucket,
\* the same bucket half a second later (a fractional "%f"), the bucket after
\* it, and the last bucket of the day.
Midnight == 0 * MsPerHour
Noon == 12 * MsPerHour
NoonHalf == Noon + 500
NoonQuarter == Noon + BucketMs
LastQuarter == 23 * MsPerHour + 45 * MsPerMinute
\* Where the watermark of the first run can be.
Offsets == {Midnight, Noon, NoonHalf, NoonQuarter, LastQuarter}

\* The instant (UTC) of local time of day o on local day d.
Instant(d, o) == d * MsPerDay + o - TaipeiOffset

\* A datetime string strptime rejects, and Python's None.
BadString == 0 - 1
None == 0 - 1

\* ------------------------------------------------------- datetime helpers
\* parse_datetime_with_timezone: the instant, read as UTC, or None.
parse_datetime_with_timezone(date_str) ==
    IF date_str = BadString THEN None ELSE date_str

\* int(dt.timestamp())
TimestampSeconds(dt) == dt \div MsPerSecond

\* int(dt.timestamp() * 1000)
TimestampMillis(dt) == dt

\* dt.astimezone(TAIPEI_TIMEZONE): the local wall clock, as milliseconds since
\* local midnight of day 0.
astimezone_taipei(dt) == dt + TaipeiOffset

\* .date(), .hour and .minute of a local wall clock.
DateOf(local) == local \div MsPerDay
HourOf(local) == (local % MsPerDay) \div MsPerHour
MinuteOf(local) == (local % MsPerHour) \div MsPerMinute

\* dt.strftime("%Y-%m-%dT%H:%M:%S.0"): the fraction of a second is dropped.
strftime_watermark(dt) == (dt \div MsPerSecond) * MsPerSecond

\* ------------------------------------------------------------ pure functions
\* is_one_day_steps_are_all_done
is_one_day_steps_are_all_done(steps_data) ==
    IF steps_data = << >> THEN FALSE
    ELSE LET last_entry == steps_data[Len(steps_data)]
             last_entry_startGMT == parse_datetime_with_timezone(last_entry.startGMT)
         IN  IF last_entry_startGMT = None THEN FALSE
             ELSE LET last_entry_startUTC8 == astimezone_taipei(last_entry_startGMT)
                  IN  ~(HourOf(last_entry_startUTC8) # 23
                        \/ MinuteOf(last_entry_startUTC8) # 45)

\* KeepsEntry that also keeps an entry that starts in the watermark's second.
KeepsEntryFromWatermark(entry, last_startGMT_date) ==
    LET startGMT == parse_datetime_with_timezone(entry.startGMT)
        endGMT == parse_datetime_with_timezone(entry.endGMT)
    IN  /\ startGMT # None
        /\ endGMT # None
        /\ entry.steps > 0
        /\ TimestampSeconds(startGMT) >= TimestampSeconds(last_startGMT_date)

\* KeepsEntry with the start compared to the watermark in milliseconds, not
\* in whole seconds.
KeepsEntryToMillisecond(entry, last_startGMT_date) ==
    LET startGMT == parse_datetime_with_timezone(entry.startGMT)
        endGMT == parse_datetime_with_timezone(entry.endGMT)
    IN  /\ startGMT # None
        /\ endGMT # None
        /\ entry.steps > 0
        /\ TimestampMillis(startGMT) > TimestampMillis(last_startGMT_date)

\* The test of filter_steps_data's loop body: both strings parse, steps > 0
\* and the start is after the watermark, both taken in whole seconds.
KeepsEntry(entry, last_startGMT_date) ==
    LET startGMT == parse_datetime_with_timezone(entry.startGMT)
        endGMT == parse_datetime_with_timezone(entry.endGMT)
    IN  /\ startGMT # None
        /\ endGMT # None
        /\ entry.steps > 0
        /\ TimestampSeconds(startGMT) > TimestampSeconds(last_startGMT_date)

\* The record filter_steps_data appends for a kept entry.
ConvertEntry(entry) ==
    [startGMTMillis |->
        TimestampSeconds(parse_datetime_with_timezone(entry.startGMT)) * 1000,
     endGMTMillis |-> TimestampMillis(parse_datetime_with_timezone(entry.endGMT)),
     steps |-> entry.steps]

\* filter_steps_data
filter_steps_data(steps_data, last_startGMT_date) ==
    LET kept == SelectSeq(steps_data, LAMBDA e : KeepsEntry(e, last_startGMT_date))
    IN  [i \in 1..Len(kept) |-> ConvertEntry(kept[i])]

\* The positions of the entries filter_steps_data keeps.
KeptPositions(steps_data, last_startGMT_date) ==
    {i \in 1..Len(steps_data) : KeepsEntry(steps_data[i], last_startGMT_date)}

\* UpdatedWatermark that leaves the watermark where it was.
UpdatedWatermarkStale(steps_data, last_startGMT_date) == last_startGMT_date

\* UpdatedWatermark taken from the last forwarded entry instead of the last
\* entry of the raw list.
UpdatedWatermarkOfForwarded(steps_data, last_startGMT_date) ==
    LET kept == SelectSeq(steps_data, LAMBDA e : KeepsEntry(e, last_startGMT_date))
    IN  IF kept # << >>
        THEN parse_datetime_with_timezone(kept[Len(kept)].startGMT)
        ELSE last_startGMT_date

\* Lines 423-426: the watermark after a day's insert.
UpdatedWatermark(steps_data, last_startGMT_date) ==
    LET last_entry_startGMT ==
            parse_datetime_with_timezone(steps_data[Len(steps_data)].startGMT)
    IN  IF last_entry_startGMT # None THEN last_entry_startGMT
        ELSE last_startGMT_date

\* current_date += timedelta(days=1)
NextDate(date) == date + 1

\* AfterNothingNew that breaks even when the day is done.
AfterNothingNewStops(all_done, date) == [pc |-> "persist", date |-> date]

\* AfterNothingNew that goes round the loop without moving the cursor.
AfterNothingNewSameDay(all_done, date) ==
    IF all_done THEN [pc |-> "loop", date |-> date]
    ELSE [pc |-> "persist", date |-> date]

\* AfterInsert that goes on to the next day even when the day is not done.
AfterInsertNoBreak(all_done, date) == [pc |-> "loop", date |-> NextDate(date)]

\* Lines 408-414: after a day with nothing to forward, the next day when the
\* day is done, else break.
AfterNothingNew(all_done, date) ==
    IF all_done THEN [pc |-> "loop", date |-> NextDate(date)]
    ELSE [pc |-> "persist", date |-> date]

\* Lines 428-432: after an insert, break when the day is not done, else the
\* next day.
AfterInsert(all_done, date) ==
    IF ~all_done THEN [pc |-> "persist", date |-> date]
    ELSE [pc |-> "loop", date |-> NextDate(date)]

\* What the dataSources().get request of create_or_get_google_fit_data_source
\* can do: answer (the data source when Google Fit holds it, else an HttpError
\* with status 404), raise an HttpError with another status, or raise another
\* exception.  What the dataSources().create request can do.
GetOutcomes == {"answer", "http_error", "exception"}
CreateOutcomes == {"created", "http_error", "exception"}

\* The data source the requests return: its dataStreamId.
DataStreamId == "derived:com.google.step_count.delta:453184793678:EDJY Projects:GarminConnectStepsSyncer:vdev-garmin-steps-syncer:GarminConnectStepsSyncer"

\* What create_or_get_google_fit_data_source returns when it has no data
\* source: None.
NoDataSource == "None"

\* The two requests, with the id they name and what came back.
GetRequest(result) ==
    [request |-> "get", dataSourceId |-> DataStreamId, result |-> result]
CreateRequest(result) ==
    [request |-> "create", dataSourceId |-> DataStreamId, result |-> result]

\* create_or_get_google_fit_data_source that also creates the data source
\* when the get request failed with something other than 404.
create_on_any_get_error(exists, get, create) ==
    IF get = "answer" /\ exists
    THEN [calls |-> <<GetRequest("found")>>, datasource |-> DataStreamId,
          exists |-> exists]
    ELSE LET first == GetRequest(IF get = "answer" THEN "404" ELSE get)
         IN  IF create = "created"
             THEN [calls |-> <<first, CreateRequest(create)>>,
                   datasource |-> DataStreamId, exists |-> TRUE]
             ELSE [calls |-> <<first, CreateRequest(create)>>,
                   datasource |-> NoDataSource, exists |-> exists]

\* create_or_get_google_fit_data_source: the requests made, the value
\* returned (None or the data source), and whether Google Fit holds the data
\* source afterwards.
create_or_get_google_fit_data_source(exists, get, create) ==
    IF get = "answer" /\ exists
    THEN [calls |-> <<GetRequest("found")>>, datasource |-> DataStreamId,
          exists |-> exists]
    ELSE IF get = "answer"
    THEN IF create = "created"
         THEN [calls |-> <<GetRequest("404"), CreateRequest(create)>>,
               datasource |-> DataStreamId, exists |-> TRUE]
         ELSE [calls |-> <<GetRequest("404"), CreateRequest(create)>>,
               datasource |-> NoDataSource, exists |-> exists]
    ELSE [calls |-> <<GetRequest(get)>>, datasource |-> NoDataSource,
          exists |-> exists]

\* str() of a natural number: its decimal digits, most significant first.
RECURSIVE DecimalDigits(_)
DecimalDigits(n) ==
    IF n < 10 THEN <<n>> ELSE DecimalDigits(n \div 10) \o <<n % 10>>

\* The character "-" in a string of digits.
Dash == 0 - 1

\* str(millis * 1000000), lines 306-307: the digits of the nanoseconds.
NanosString(millis) ==
    IF millis = 0 THEN <<0>>
    ELSE DecimalDigits(millis) \o <<0, 0, 0, 0, 0, 0>>

\* Lines 304-314: the data point of one forwarded record.
DataPoint(data_source_id, entry) ==
    [dataTypeName |-> "com.google.step_count.delta",
     startTimeNanos |-> NanosString(entry.startGMTMillis),
     endTimeNanos |-> NanosString(entry.endGMTMillis),
     value |-> <<[intVal |-> entry.steps]>>,
     originDataSourceId |-> data_source_id]

\* Lines 301-314: data_point_set.
DataPointSet(data_source_id, steps_data_list) ==
    [i \in 1..Len(steps_data_list) |->
        DataPoint(data_source_id, steps_data_list[i])]

\* DatasetId made of the first record's start and the first record's end.
DatasetIdOfFirstRecord(data_point_set) ==
    data_point_set[1].startTimeNanos \o <<Dash>>
        \o data_point_set[1].endTimeNanos

\* Lines 316-320: dataset_id, "{startTimeNanos}-{endTimeNanos}".
DatasetId(data_point_set) ==
    data_point_set[1].startTimeNanos \o <<Dash>>
        \o data_point_set[Len(data_point_set)].endTimeNanos

\* Lines 301-336: the patch request insert_steps_data_list makes for a list:
\* the dataSourceId and datasetId it names and its body.
PatchRequest(data_source_id, steps_data_list) ==
    LET data_point_set == DataPointSet(data_source_id, steps_data_list)
    IN  [dataSourceId |-> data_source_id,
         datasetId |-> DatasetId(data_point_set),
         body |-> [dataSourceId |-> data_source_id,
                   minStartTimeNs |-> data_point_set[1].startTimeNanos,
                   maxEndTimeNs |->
                       data_point_set[Len(data_point_set)].endTimeNanos,
                   point |-> data_point_set]]

\* The points of a request's body.
PointsOf(request) ==
    {request.body.point[i] : i \in 1..Len(request.body.point)}

\* What identifies a data point in a data source: its time interval.
PointKey(point) == <<point.startTimeNanos, point.endTimeNanos>>

\* A patch that adds the request's points to whatever the data source holds.
AppendPoints(dataset, request) == dataset (+) SetToBag(PointsOf(request))

\* Lines 331-336, datasets().patch on success: the request's points are
\* merged into the data source; a point the data source holds for the same
\* interval is replaced.
MergePoints(dataset, request) ==
    LET keys == {PointKey(p) : p \in PointsOf(request)}
        rest == {p \in BagToSet(dataset) : PointKey(p) \notin keys}
    IN  [p \in rest |-> dataset[p]] (+) SetToBag(PointsOf(request))

\* ------------------------------------------------------------------ source
\* A bucket that starts at local time of day o on local day d.
Bucket(d, o, n) ==
    [startGMT |-> Instant(d, o), endGMT |-> Instant(d, o) + BucketMs, steps |-> n]

\* The entries Garmin can hold for local day d: buckets with steps, buckets
\* without, and an entry whose startGMT does not parse.
DayEntries(d) ==
    {Bucket(d, Noon, 7), Bucket(d, NoonHalf, 7), Bucket(d, NoonQuarter, 0),
     Bucket(d, LastQuarter, 7), Bucket(d, LastQuarter, 0),
     [startGMT |-> BadString, endGMT |-> Instant(d, Noon) + BucketMs, steps |-> 7]}

\* The lists get_steps_data can return for day d: any entries, in any order,
\* at most room of them.
DayLists(d, room) ==
    UNION {[1..n -> DayEntries(d)] : n \in 0..room}

\* Values GARMIN_STEPS_LAST_STARTGMT can have at the first run.
InitialWatermarks ==
    {Instant(d, o) : d \in Days, o \in Offsets}

NoFile == 0 - 2

\* GARMIN_STEPS_LAST_STARTGMT is not set (os.getenv gives None) or is empty.
Unset == 0 - 3
Unobserved == [known |-> FALSE, data |-> << >>]
NoRun == [env |-> NoFile, file |-> NoFile, failed |-> FALSE, changed |-> FALSE,
          chained |-> FALSE, upserts |-> << >>]

RECURSIVE SumLen(_, _)
SumLen(src, ds) ==
    IF ds = {} THEN 0
    ELSE LET d == CHOOSE x \in ds : TRUE
         IN  Len(src[d].data) + SumLen(src, ds \ {d})

\* How many more entries the source can take.
Room(src) == MaxEntries - SumLen(src, DOMAIN src)

VARIABLES
    pc,                  \* where the script is
    last_startGMT,       \* GARMIN_STEPS_LAST_STARTGMT of this run
    last_startGMT_date,  \* the watermark
    current_date,        \* the day cursor (a local date)
    steps_data,          \* the last fetched list
    is_steps_are_all_done,
    filtered_steps,
    new_last_startGMT_file, \* the watermark file's content, or NoFile
    today,               \* datetime.now(tz=TAIPEI_TIMEZONE).date()
    garmin,              \* the source: per day, the list Garmin holds
    fetches,             \* this run's get_steps_by_date calls
    upserts,             \* this run's insert_steps_data_list calls
    since,               \* the source or the date changed since the last run
    prev,                \* how the previous run started and ended
    chained,             \* every run so far started from its predecessor's file
    forwarded,           \* while chained: the entries (day, position) passed
                         \* to an insert so far
    reemitted,           \* while chained: an entry was passed a second time
    datasource_calls,    \* this run's dataSources() requests, in order
    stream_exists,       \* Google Fit holds the data source
    \* insert_steps_data_list against the data source, on its own
    patch_source,        \* the day's list the forwarded lists are taken from
    fit,                 \* the data points the data source holds (a bag)
    patched,             \* the calls whose patch succeeded so far: list and
                         \* request
    last_patch,          \* the latest insert_steps_data_list call
    \* name_syncer.py, sync_name_from_garmin_to_strava
    garmin_activities,   \* the Garmin mapping: timestamp -> id and name
    strava_activities,   \* the Strava mapping: timestamp -> id and name
    sync_ignore_list,    \* the prefixes read from the ignore file
    synced,              \* how many items of garmin_activities the loop has
                         \* gone through
    renames,             \* the strava_update_activity_name calls, in order
    passes,              \* how many runs of the name syncer came before
    earlier,             \* the calls of the run before this one
    \* name_syncer.py, the window the two snapshots are asked for
    now_utc,             \* datetime.now(timezone.utc), in hours
    window_pc,           \* where the script is
    garmin_request,      \* the arguments of get_activities_by_date
    strava_request,      \* the arguments of get_activities
    garmin_fetch,        \* what get_activities_by_date gave
    strava_fetch,        \* what get_activities gave
    \* index_checker.py, main from the latest row on
    ndc_index,           \* the repository variable NDC_INDEX
    ndc_index_env,       \* os.environ.get("NDC_INDEX") of this invocation
    new_data,            \* the snapshot taken from the CSV
    notify_pc,           \* where main is
    invocation,          \* how many invocations came before this one
    line_configured,     \* LINE_CH_ACCESS_TOKEN and a user id are set
    github_actions,      \* GITHUB_ACTIONS is set
    line_messages,       \* the messages handed to send_line_message
    persists,            \* the gh variable set calls
    \* garmin_steps.py and the root garmin_steps_to_google_fit.py
    variant,             \* which of the two scripts runs
    cursor_pc,           \* where the script is
    last_synced_date,    \* GARMIN_STEPS_LAST_SYNCED_DATE
    cursor_date,         \* current_date, the day cursor
    cursor_today,        \* datetime.now(tz=UTC+8).date()
    cursor_fetches,      \* the get_steps_by_date calls: day and result
    cursor_inserts,      \* the lists passed to insert_steps_data_list
    cursor_file,         \* new_last_synced_date.txt, or NoFile
    \* index_checker.py, main from the CSV to the latest row
    csv_rows,            \* the rows csv.DictReader gives, in file order
    valid_rows,          \* the rows kept, the score converted
    latest_row,          \* the row the snapshot is taken from
    csv_pc,              \* where main is
    \* garmin_steps_to_google_fit.py, the watermark as a text
    watermark,           \* last_startGMT_date at the persist step, as a datetime
    watermark_text,      \* what the persist step wrote
    reparsed,            \* what the next run parses of it
    roundtrip_pc         \* where the two runs are

patch_vars == <<patch_source, fit, patched, last_patch>>

sync_vars == <<garmin_activities, strava_activities, sync_ignore_list, synced,
               renames, passes, earlier>>

\* No insert_steps_data_list call yet.
NoPatch == [steps_data_list |-> << >>, ok |-> FALSE, again |-> FALSE]

\* The variables a run of the steps script leaves alone.
window_vars == <<now_utc, window_pc, garmin_request, strava_request,
                 garmin_fetch, strava_fetch>>
notify_vars == <<ndc_index, ndc_index_env, new_data, notify_pc, invocation,
                 line_configured, github_actions, line_messages, persists>>
cursor_vars == <<variant, cursor_pc, last_synced_date, cursor_date,
                 cursor_today, cursor_fetches, cursor_inserts, cursor_file>>
csv_vars == <<csv_rows, valid_rows, latest_row, csv_pc>>
roundtrip_vars == <<watermark, watermark_text, reparsed, roundtrip_pc>>
other_vars == <<window_vars, notify_vars, cursor_vars, csv_vars,
               roundtrip_vars>>
outside_run == UNCHANGED <<patch_vars, sync_vars, other_vars>>

\* No insert_steps_data_list call is looked at.
PatchParked ==
    /\ patch_source = << >>
    /\ fit = EmptyBag
    /\ patched = {}
    /\ last_patch = NoPatch

\* No sync_name_from_garmin_to_strava call is looked at.
\* No request made.
NoRequest == << >>

\* No call made.
NoFetch == [called |-> FALSE, success |-> FALSE, activities |-> << >>]

WindowParked ==
    /\ now_utc = 0
    /\ window_pc = "parked"
    /\ garmin_request = NoRequest
    /\ strava_request = NoRequest
    /\ garmin_fetch = NoFetch
    /\ strava_fetch = NoFetch

NotifyParked ==
    /\ ndc_index = [kind |-> "not set"]
    /\ ndc_index_env = [kind |-> "not set"]
    /\ new_data = << >>
    /\ notify_pc = "parked"
    /\ invocation = 0
    /\ line_configured = FALSE
    /\ github_actions = FALSE
    /\ line_messages = << >>
    /\ persists = << >>

CsvParked ==
    /\ csv_rows = << >>
    /\ valid_rows = << >>
    /\ latest_row = << >>
    /\ csv_pc = "parked"

RoundTripParked ==
    /\ watermark = << >>
    /\ watermark_text = << >>
    /\ reparsed = << >>
    /\ roundtrip_pc = "parked"

CursorParked ==
    /\ variant = "parked"
    /\ cursor_pc = "parked"
    /\ last_synced_date = 0
    /\ cursor_date = 0
    /\ cursor_today = 0
    /\ cursor_fetches = << >>
    /\ cursor_inserts = << >>
    /\ cursor_file = 0 - 2

SyncParked ==
    /\ garmin_activities = << >>
    /\ strava_activities = << >>
    /\ sync_ignore_list = << >>
    /\ synced = 0
    /\ renames = << >>
    /\ passes = 0
    /\ earlier = << >>

steps_vars == <<pc, last_startGMT, last_startGMT_date, current_date, steps_data,
          is_steps_are_all_done, filtered_steps, new_last_startGMT_file,
          today, garmin, fetches, upserts, since, prev, forwarded,
          reemitted, chained, datasource_calls, stream_exists>>

vars == <<steps_vars, patch_vars, sync_vars, other_vars>>

Init ==
    /\ PatchParked
    /\ SyncParked
    /\ WindowParked
    /\ NotifyParked
    /\ CursorParked
    /\ CsvParked
    /\ RoundTripParked
    /\ pc = "start"
    /\ last_startGMT \in InitialWatermarks \cup {BadString, Unset}
    /\ last_startGMT_date = None
    /\ current_date = 0
    /\ steps_data = << >>
    /\ is_steps_are_all_done = FALSE
    /\ filtered_steps = << >>
    /\ new_last_startGMT_file = NoFile
    /\ today \in Days
    /\ garmin = [d \in Days |-> Unobserved]
    /\ fetches = << >>
    /\ upserts = << >>
    /\ since = FALSE
    /\ prev = NoRun
    /\ forwarded = {}
    /\ reemitted = FALSE
    /\ chained = TRUE
    /\ datasource_calls = << >>
    /\ stream_exists \in BOOLEAN

\* What stays as it is while the script checks its configuration and sets up
\* its clients.
setup_unchanged ==
    /\ outside_run
    /\ UNCHANGED <<last_startGMT, current_date, steps_data, is_steps_are_all_done,
                filtered_steps, new_last_startGMT_file, today, garmin, fetches,
                upserts, since, prev, forwarded, reemitted, chained>>

\* Lines 350-360: the watermark is not set or does not parse: exit(1).
ConfigError ==
    /\ pc = "start"
    /\ \/ last_startGMT = Unset
       \/ parse_datetime_with_timezone(last_startGMT) = None
    /\ pc' = "exit1"
    /\ UNCHANGED <<last_startGMT_date, datasource_calls, stream_exists>>
    /\ setup_unchanged

\* WatermarkParsed that does not look at what parse_datetime_with_timezone
\* returned.
WatermarkParsedUnchecked ==
    /\ pc = "start"
    /\ last_startGMT # Unset
    /\ last_startGMT_date' = parse_datetime_with_timezone(last_startGMT)
    /\ pc' = "secrets"
    /\ UNCHANGED <<datasource_calls, stream_exists>>
    /\ setup_unchanged

\* Lines 350-360: the watermark is set and parses.
WatermarkParsed ==
    /\ pc = "start"
    /\ last_startGMT # Unset
    /\ parse_datetime_with_timezone(last_startGMT) # None
    /\ last_startGMT_date' = parse_datetime_with_timezone(last_startGMT)
    /\ pc' = "secrets"
    /\ UNCHANGED <<datasource_calls, stream_exists>>
    /\ setup_unchanged

\* Lines 362-370: GARMIN_TOKENS_BASE64 or GOOGLE_AUTH_USER_JSON_BASE64 is not
\* set: exit(1).
SecretsMissing ==
    /\ pc = "secrets"
    /\ pc' = "exit1"
    /\ UNCHANGED <<last_startGMT_date, datasource_calls, stream_exists>>
    /\ setup_unchanged

\* Lines 372 and 438-439: GOOGLE_AUTH_USER_JSON_BASE64 is set but is not the
\* base64 of a JSON text; b64decode or json.loads raises, the handler at the
\* end of the script prints the error and the script ends normally.
AuthUserJsonGarbled ==
    /\ pc = "secrets"
    /\ pc' = "caught"
    /\ UNCHANGED <<last_startGMT_date, datasource_calls, stream_exists>>
    /\ setup_unchanged

\* Lines 362-372: both are set and the JSON decodes.
SecretsLoaded ==
    /\ pc = "secrets"
    /\ pc' = "google_fit"
    /\ UNCHANGED <<last_startGMT_date, datasource_calls, stream_exists>>
    /\ setup_unchanged

\* Lines 374-378: init_google_fit_api returns None: exit(1).
GoogleFitInitFailed ==
    /\ pc = "google_fit"
    /\ pc' = "exit1"
    /\ UNCHANGED <<last_startGMT_date, datasource_calls, stream_exists>>
    /\ setup_unchanged

\* Lines 374-378: init_google_fit_api returns the service.
GoogleFitInitialised ==
    /\ pc = "google_fit"
    /\ pc' = "data_source"
    /\ UNCHANGED <<last_startGMT_date, datasource_calls, stream_exists>>
    /\ setup_unchanged

\* Lines 380-387: create_or_get_google_fit_data_source; exit(1) when it gives
\* no data source.
GetDataSource ==
    /\ pc = "data_source"
    /\ \E get \in GetOutcomes : \E create \in CreateOutcomes :
          LET got == create_or_get_google_fit_data_source(stream_exists, get, create)
          IN  /\ datasource_calls' = got.calls
              /\ stream_exists' = got.exists
              /\ pc' = IF got.datasource = NoDataSource THEN "exit1" ELSE "garmin"
    /\ UNCHANGED last_startGMT_date
    /\ setup_unchanged

\* Lines 389-393: init_garmin_api returns None: exit(1).
GarminInitFailed ==
    /\ pc = "garmin"
    /\ pc' = "exit1"
    /\ UNCHANGED <<last_startGMT_date, datasource_calls, stream_exists>>
    /\ setup_unchanged

\* StartRun with the day cursor put on the day after the watermark's.
StartRunNextDay ==
    /\ pc = "garmin"
    /\ current_date' = NextDate(DateOf(astimezone_taipei(last_startGMT_date)))
    /\ steps_data' = << >>
    /\ pc' = "loop"
    /\ UNCHANGED <<last_startGMT, last_startGMT_date, is_steps_are_all_done,
                   filtered_steps, new_last_startGMT_file, today, garmin,
                   fetches, upserts, since, prev, forwarded, reemitted, chained,
                   datasource_calls, stream_exists>>
    /\ outside_run

\* Lines 389-397: init_garmin_api returns the client; the day cursor is the
\* watermark's local date.
StartRun ==
    /\ pc = "garmin"
    /\ current_date' = DateOf(astimezone_taipei(last_startGMT_date))
    /\ steps_data' = << >>
    /\ pc' = "loop"
    /\ UNCHANGED <<last_startGMT, last_startGMT_date, is_steps_are_all_done,
                   filtered_steps, new_last_startGMT_file, today, garmin,
                   fetches, upserts, since, prev, forwarded, reemitted, chained,
                   datasource_calls, stream_exists>>
    /\ outside_run

\* Line 398, condition false: the loop ends.
LoopExit ==
    /\ pc = "loop"
    /\ ~(current_date <= today)
    /\ pc' = "persist"
    /\ UNCHANGED <<last_startGMT, last_startGMT_date, current_date, steps_data,
                   is_steps_are_all_done, filtered_steps, new_last_startGMT_file,
                   today, garmin, fetches, upserts, since, prev, forwarded,
          reemitted, chained>>
    /\ UNCHANGED <<datasource_calls, stream_exists>>
    /\ outside_run

\* What lines 399-406 leave in the loop's variables for a returned list.
Fetched(data, failed) ==
    /\ steps_data' = data
    /\ is_steps_are_all_done' =
          IF data = << >> THEN is_steps_are_all_done
          ELSE is_one_day_steps_are_all_done(data)
    /\ filtered_steps' =
          IF data = << >> THEN filtered_steps
          ELSE filter_steps_data(data, last_startGMT_date)
    /\ fetches' = Append(fetches, [day |-> current_date, failed |-> failed,
                                   data |-> data])
    /\ pc' = "fetched"

\* Lines 398-406: get_steps_by_date(current_date).  The call raises (None is
\* returned), or returns the list Garmin holds for the day; a day's list is
\* chosen when the day is first read and kept from then on.
FetchDay ==
    /\ pc = "loop"
    /\ current_date <= today
    /\ \/ /\ Fetched(<< >>, TRUE)
          /\ UNCHANGED garmin
       \/ /\ garmin[current_date].known
          /\ Fetched(garmin[current_date].data, FALSE)
          /\ UNCHANGED garmin
       \/ /\ ~garmin[current_date].known
          /\ \E data \in DayLists(current_date, Room(garmin)) :
                /\ garmin' = [garmin EXCEPT ![current_date] =
                                 [known |-> TRUE, data |-> data]]
                /\ Fetched(data, FALSE)
    /\ UNCHANGED <<last_startGMT, last_startGMT_date, current_date,
                   new_last_startGMT_file, today, upserts, since, prev, forwarded,
                   reemitted, chained>>
    /\ UNCHANGED <<datasource_calls, stream_exists>>
    /\ outside_run

\* NoStepsData that goes round the loop again on the same day.
NoStepsDataRetries ==
    /\ pc = "fetched"
    /\ steps_data = << >>
    /\ pc' = "loop"
    /\ UNCHANGED <<last_startGMT, last_startGMT_date, current_date, steps_data,
                   is_steps_are_all_done, filtered_steps, new_last_startGMT_file,
                   today, garmin, fetches, upserts, since, prev, forwarded,
                   reemitted, chained, datasource_calls, stream_exists>>
    /\ outside_run

\* Lines 400-402: nothing came back: break.
NoStepsData ==
    /\ pc = "fetched"
    /\ steps_data = << >>
    /\ pc' = "persist"
    /\ UNCHANGED <<last_startGMT, last_startGMT_date, current_date, steps_data,
                   is_steps_are_all_done, filtered_steps, new_last_startGMT_file,
                   today, garmin, fetches, upserts, since, prev, forwarded,
          reemitted, chained>>
    /\ UNCHANGED <<datasource_calls, stream_exists>>
    /\ outside_run

\* Lines 407-414: nothing to forward: next day when the day is done, else break.
NothingNew ==
    /\ pc = "fetched"
    /\ steps_data # << >>
    /\ filtered_steps = << >>
    /\ pc' = AfterNothingNew(is_steps_are_all_done, current_date).pc
    /\ current_date' = AfterNothingNew(is_steps_are_all_done, current_date).date
    /\ UNCHANGED <<last_startGMT, last_startGMT_date, steps_data,
                   is_steps_are_all_done, filtered_steps, new_last_startGMT_file,
                   today, garmin, fetches, upserts, since, prev, forwarded,
          reemitted, chained>>
    /\ UNCHANGED <<datasource_calls, stream_exists>>
    /\ outside_run

\* Lines 416-432: insert_steps_data_list, whose dataset patch succeeds or
\* raises (the error is printed inside insert_steps_data_list and nothing is
\* returned either way); then the watermark moves to the start of the list's
\* last entry; then break on a day not done, or the next day.
InsertSteps ==
    /\ pc = "fetched"
    /\ steps_data # << >>
    /\ filtered_steps # << >>
    /\ \E ok \in BOOLEAN :
          upserts' = Append(upserts,
              [day |-> current_date, ok |-> ok, before |-> last_startGMT_date,
               raw |-> steps_data, data |-> filtered_steps])
    /\ LET sent == {<<current_date, i>> :
                       i \in KeptPositions(steps_data, last_startGMT_date)}
       IN  IF chained
           THEN /\ forwarded' = forwarded \cup sent
                /\ reemitted' = (reemitted \/ sent \cap forwarded # {})
           ELSE UNCHANGED <<forwarded, reemitted>>
    /\ last_startGMT_date' = UpdatedWatermark(steps_data, last_startGMT_date)
    /\ pc' = AfterInsert(is_steps_are_all_done, current_date).pc
    /\ current_date' = AfterInsert(is_steps_are_all_done, current_date).date
    /\ UNCHANGED <<last_startGMT, steps_data, is_steps_are_all_done,
                   filtered_steps, new_last_startGMT_file, today, garmin,
                   fetches, since, prev, chained>>
    /\ UNCHANGED <<datasource_calls, stream_exists>>
    /\ outside_run

\* Persist that writes the file only when the run forwarded something.
PersistOnlyProgress ==
    /\ pc = "persist"
    /\ new_last_startGMT_file' =
          IF upserts = << >> THEN new_last_startGMT_file
          ELSE strftime_watermark(last_startGMT_date)
    /\ pc' = "done"
    /\ UNCHANGED <<last_startGMT, last_startGMT_date, current_date, steps_data,
                   is_steps_are_all_done, filtered_steps, today, garmin,
                   fetches, upserts, since, prev, forwarded, reemitted,
                   chained, datasource_calls, stream_exists>>
    /\ outside_run

\* Lines 434-437: the watermark is written to new_last_startGMT_file.
Persist ==
    /\ pc = "persist"
    /\ new_last_startGMT_file' = strftime_watermark(last_startGMT_date)
    /\ pc' = "done"
    /\ UNCHANGED <<last_startGMT, last_startGMT_date, current_date, steps_data,
                   is_steps_are_all_done, filtered_steps, today, garmin,
                   fetches, upserts, since, prev, forwarded, reemitted,
                   chained>>
    /\ UNCHANGED <<datasource_calls, stream_exists>>
    /\ outside_run

\* Whether a get_steps_by_date call of this run raised.
FetchFailed == \E i \in 1..Len(fetches) : fetches[i].failed

\* A new run starts with env in GARMIN_STEPS_LAST_STARTGMT.
Restart(env, from_file) ==
    /\ pc = "done"
    /\ prev' = [env |-> last_startGMT, file |-> new_last_startGMT_file,
                failed |-> FetchFailed, changed |-> since,
                chained |-> from_file, upserts |-> upserts]
    /\ chained' = (chained /\ from_file)
    /\ forwarded' = IF chained' THEN forwarded ELSE {}
    /\ reemitted' = (chained' /\ reemitted)
    /\ last_startGMT' = env
    /\ pc' = "start"
    /\ fetches' = << >>
    /\ upserts' = << >>
    /\ since' = FALSE
    /\ new_last_startGMT_file' = NoFile
    /\ datasource_calls' = << >>
    /\ last_startGMT_date' = None
    /\ current_date' = 0
    /\ steps_data' = << >>
    /\ is_steps_are_all_done' = FALSE
    /\ filtered_steps' = << >>
    /\ UNCHANGED <<today, garmin, stream_exists>>
    /\ outside_run

\* The next run, after the workflow stored the file's content in
\* GARMIN_STEPS_LAST_STARTGMT.
NextRun == Restart(new_last_startGMT_file, TRUE)

\* The next run, the variable left as it was (the workflow's update step did
\* not run).
RerunSameWatermark == Restart(last_startGMT, FALSE)

\* Between two runs Garmin records one more bucket of a day: the source only
\* appends.
GarminAppend ==
    /\ pc = "done"
    /\ Room(garmin) > 0
    /\ \E d \in Days : \E entry \in DayEntries(d) :
          /\ garmin[d].known
          /\ garmin' = [garmin EXCEPT ![d].data = Append(@, entry)]
    /\ since' = TRUE
    /\ UNCHANGED <<pc, last_startGMT, last_startGMT_date, current_date,
                   steps_data, is_steps_are_all_done, filtered_steps,
                   new_last_startGMT_file, today, fetches, upserts, prev,
                   forwarded, reemitted, chained>>
    /\ UNCHANGED <<datasource_calls, stream_exists>>
    /\ outside_run

\* Between two runs the local date moves on.
DayPasses ==
    /\ pc = "done"
    /\ today < MaxDay
    /\ today' = today + 1
    /\ since' = TRUE
    /\ UNCHANGED <<pc, last_startGMT, last_startGMT_date, current_date,
                   steps_data, is_steps_are_all_done, filtered_steps,
                   new_last_startGMT_file, garmin, fetches, upserts, prev,
                   forwarded, reemitted, chained>>
    /\ UNCHANGED <<datasource_calls, stream_exists>>
    /\ outside_run

Next ==
    \/ ConfigError
    \/ WatermarkParsed
    \/ SecretsMissing
    \/ AuthUserJsonGarbled
    \/ SecretsLoaded
    \/ GoogleFitInitFailed
    \/ GoogleFitInitialised
    \/ GetDataSource
    \/ GarminInitFailed
    \/ StartRun
    \/ LoopExit
    \/ FetchDay
    \/ NoStepsData
    \/ NothingNew
    \/ InsertSteps
    \/ Persist
    \/ NextRun
    \/ RerunSameWatermark
    \/ GarminAppend
    \/ DayPasses

Spec == Init /\ [][Next]_vars

\* The script is one sequential process: a step of the loop that can be
\* taken is taken.
LoopStep ==
    \/ LoopExit
    \/ FetchDay
    \/ NoStepsData
    \/ NothingNew
    \/ InsertSteps
FairSpec == Spec /\ WF_vars(LoopStep)

\* ------------------------------------------- insert_steps_data_list alone
\* The lists a run can pass to insert_steps_data_list: what filter_steps_data
\* keeps of a day's list under some watermark, when it keeps anything.
ForwardedLists(raw) ==
    {filter_steps_data(raw, w) : w \in InitialWatermarks} \ {<< >>}

\* No run of the steps script is looked at.
StepsParked ==
    /\ pc = "exit1"
    /\ last_startGMT = Unset
    /\ last_startGMT_date = None
    /\ current_date = 0
    /\ steps_data = << >>
    /\ is_steps_are_all_done = FALSE
    /\ filtered_steps = << >>
    /\ new_last_startGMT_file = NoFile
    /\ today = MaxDay
    /\ garmin = [d \in Days |-> Unobserved]
    /\ fetches = << >>
    /\ upserts = << >>
    /\ since = FALSE
    /\ prev = NoRun
    /\ forwarded = {}
    /\ reemitted = FALSE
    /\ chained = TRUE
    /\ datasource_calls = << >>
    /\ stream_exists = TRUE

\* The variables an insert_steps_data_list call on its own leaves alone.
outside_patch == UNCHANGED <<steps_vars, sync_vars, other_vars>>

\* A day's list is given; the data source is empty.
PatchInit ==
    /\ \E d \in Days : patch_source \in DayLists(d, MaxEntries)
    /\ fit = EmptyBag
    /\ patched = {}
    /\ last_patch = NoPatch
    /\ StepsParked
    /\ SyncParked
    /\ WindowParked
    /\ NotifyParked
    /\ CursorParked
    /\ CsvParked
    /\ RoundTripParked

\* Lines 299-342: insert_steps_data_list with a list, the patch succeeding.
PatchSucceeds ==
    /\ \E steps_data_list \in ForwardedLists(patch_source) :
          LET request == PatchRequest(DataStreamId, steps_data_list)
              call == [steps_data_list |-> steps_data_list, request |-> request]
          IN  /\ fit' = MergePoints(fit, request)
              /\ patched' = patched \cup {call}
              /\ last_patch' = [steps_data_list |-> steps_data_list,
                                request |-> request, ok |-> TRUE,
                                again |-> call \in patched]
    /\ UNCHANGED patch_source
    /\ outside_patch

\* Lines 299-347: insert_steps_data_list with a list, the patch raising.
PatchRaises ==
    /\ \E steps_data_list \in ForwardedLists(patch_source) :
          LET request == PatchRequest(DataStreamId, steps_data_list)
              call == [steps_data_list |-> steps_data_list, request |-> request]
          IN  last_patch' = [steps_data_list |-> steps_data_list,
                             request |-> request, ok |-> FALSE,
                             again |-> call \in patched]
    /\ UNCHANGED <<patch_source, fit, patched>>
    /\ outside_patch

PatchNext ==
    \/ PatchSucceeds
    \/ PatchRaises

PatchSpec == PatchInit /\ [][PatchNext]_vars

\* ------------------------------ name_syncer.py: sync_name_from_garmin_to_strava
\* How many start timestamps there are, and how many lines the ignore file
\* can have.
MaxKeys == 2
MaxIgnore == 2

\* The start timestamps ("%Y-%m-%d %H:%M:%S" strings), numbered in time order.
Timestamps == 1..MaxKeys

\* Activity names, as strings of characters; the lines of the ignore file
\* (stripped, not empty).
ActivityNames == {<< >>, <<"a">>, <<"a", "b">>, <<"b">>}
IgnoreLines == {<<"a">>, <<"a", "b">>, <<"b">>}

\* The ids Garmin and Strava give the activity that started at a timestamp.
GarminId(timestamp) == 100 + timestamp
StravaId(timestamp) == 200 + timestamp

\* Lines 152-184 and 203-234: the mappings, timestamp -> {"id", "name"}.
GarminMappings ==
    UNION {{[k \in S |-> [id |-> GarminId(k), name |-> names[k]]] :
               names \in [S -> ActivityNames]} : S \in SUBSET Timestamps}
StravaMappings ==
    UNION {{[k \in S |-> [id |-> StravaId(k), name |-> names[k]]] :
               names \in [S -> ActivityNames]} : S \in SUBSET Timestamps}

\* Lines 259-264: the lists the ignore file can give.
IgnoreLists == UNION {[1..n -> IgnoreLines] : n \in 0..MaxIgnore}

\* str.startswith(prefix)
startswith(name, prefix) ==
    /\ Len(prefix) <= Len(name)
    /\ SubSeq(name, 1, Len(prefix)) = prefix

\* IsIgnored that asks for a name equal to a line of the list.
IsIgnoredWhenEqual(garmin_activity_name, ignore_list) ==
    \E i \in 1..Len(ignore_list) : garmin_activity_name = ignore_list[i]

\* IsIgnored that looks at the first line of the list only.
IsIgnoredByFirstLine(garmin_activity_name, ignore_list) ==
    /\ ignore_list # << >>
    /\ startswith(garmin_activity_name, ignore_list[1])

\* Line 270: garmin_activity_name.startswith(tuple(sync_ignore_list)).
IsIgnored(garmin_activity_name, ignore_list) ==
    \E i \in 1..Len(ignore_list) :
        startswith(garmin_activity_name, ignore_list[i])

\* NamesDiffer that holds of every timestamp Strava has too.
HasStravaActivity(garmin_timestamp, garmin_activity_name, strava) ==
    garmin_timestamp \in DOMAIN strava

\* Lines 274-276: the timestamp is in strava_activities and the names differ.
NamesDiffer(garmin_timestamp, garmin_activity_name, strava) ==
    /\ garmin_timestamp \in DOMAIN strava
    /\ garmin_activity_name # strava[garmin_timestamp].name

\* The i-th key of a mapping in the order of its items (the mappings are
\* built sorted by timestamp).
KeyAt(activities, i) ==
    CHOOSE k \in DOMAIN activities :
        Cardinality({j \in DOMAIN activities : j <= k}) = i

\* Lines 183-184 and 233-234: sorted(activity_map.items(), key=...): the keys
\* in time order, whatever order they were inserted in.
RECURSIVE sorted_items(_)
sorted_items(inserted) ==
    IF inserted = << >> THEN << >>
    ELSE LET first == CHOOSE i \in DOMAIN inserted :
                         \A j \in DOMAIN inserted : inserted[i] <= inserted[j]
         IN  <<inserted[first]>> \o
             sorted_items(SubSeq(inserted, 1, first - 1) \o
                          SubSeq(inserted, first + 1, Len(inserted)))

\* sync_calls whose loop ends at the first ignored name.
RECURSIVE sync_calls_until_ignored(_, _, _, _)
sync_calls_until_ignored(items, garmin_map, strava_map, ignore_list) ==
    IF items = << >> THEN << >>
    ELSE LET timestamp == Head(items)
             name == garmin_map[timestamp].name
         IN  IF IsIgnored(name, ignore_list) THEN << >>
             ELSE (IF NamesDiffer(timestamp, name, strava_map)
                   THEN <<<<strava_map[timestamp].id, name>>>>
                   ELSE << >>) \o
                  sync_calls_until_ignored(Tail(items), garmin_map,
                                           strava_map, ignore_list)

\* Lines 267-280: the calls (activity id, new name) the loop makes when the
\* items of garmin_activities come in the given order.
RECURSIVE sync_calls(_, _, _, _)
sync_calls(items, garmin_map, strava_map, ignore_list) ==
    IF items = << >> THEN << >>
    ELSE LET timestamp == Head(items)
             name == garmin_map[timestamp].name
         IN  (IF  /\ ~IsIgnored(name, ignore_list)
                  /\ NamesDiffer(timestamp, name, strava_map)
              THEN <<<<strava_map[timestamp].id, name>>>>
              ELSE << >>) \o
             sync_calls(Tail(items), garmin_map, strava_map, ignore_list)

\* The item the loop of line 267 is at.
garmin_timestamp == KeyAt(garmin_activities, synced + 1)
garmin_activity_name == garmin_activities[garmin_timestamp].name

\* The variables sync_name_from_garmin_to_strava leaves alone.
outside_sync == UNCHANGED <<steps_vars, patch_vars, other_vars>>

\* The call's arguments and the ignore file.
SyncInit ==
    /\ garmin_activities \in GarminMappings
    /\ strava_activities \in StravaMappings
    /\ sync_ignore_list \in IgnoreLists
    /\ synced = 0
    /\ renames = << >>
    /\ passes = 0
    /\ earlier = << >>
    /\ StepsParked
    /\ PatchParked
    /\ WindowParked
    /\ NotifyParked
    /\ CursorParked
    /\ CsvParked
    /\ RoundTripParked

\* Lines 267-272: the Garmin name starts with a line of the ignore list:
\* continue.
SkipIgnored ==
    /\ synced < Cardinality(DOMAIN garmin_activities)
    /\ IsIgnored(garmin_activity_name, sync_ignore_list)
    /\ synced' = synced + 1
    /\ UNCHANGED <<garmin_activities, strava_activities, sync_ignore_list,
                   renames, passes, earlier>>
    /\ outside_sync

\* Lines 267-276: Strava has no activity at the timestamp, or it has the
\* same name: nothing is done.
NoRename ==
    /\ synced < Cardinality(DOMAIN garmin_activities)
    /\ ~IsIgnored(garmin_activity_name, sync_ignore_list)
    /\ ~NamesDiffer(garmin_timestamp, garmin_activity_name, strava_activities)
    /\ synced' = synced + 1
    /\ UNCHANGED <<garmin_activities, strava_activities, sync_ignore_list,
                   renames, passes, earlier>>
    /\ outside_sync

\* RenameActivity whose failed update ends the pass.
RenameActivityFailureStops ==
    /\ synced < Cardinality(DOMAIN garmin_activities)
    /\ ~IsIgnored(garmin_activity_name, sync_ignore_list)
    /\ NamesDiffer(garmin_timestamp, garmin_activity_name, strava_activities)
    /\ \E ok \in BOOLEAN :
          /\ renames' = Append(renames,
                [activity_id |-> strava_activities[garmin_timestamp].id,
                 new_name |-> garmin_activity_name, ok |-> ok])
          /\ synced' = IF ok THEN synced + 1
                             ELSE Cardinality(DOMAIN garmin_activities)
    /\ UNCHANGED <<garmin_activities, strava_activities, sync_ignore_list,
                   passes, earlier>>
    /\ outside_sync

\* Lines 267-280 and 245-252: the names differ: strava_update_activity_name
\* with the Strava id and the Garmin name; update_activity succeeds or
\* raises, and the error is printed.
RenameActivity ==
    /\ synced < Cardinality(DOMAIN garmin_activities)
    /\ ~IsIgnored(garmin_activity_name, sync_ignore_list)
    /\ NamesDiffer(garmin_timestamp, garmin_activity_name, strava_activities)
    /\ \E ok \in BOOLEAN :
          renames' = Append(renames,
              [activity_id |-> strava_activities[garmin_timestamp].id,
               new_name |-> garmin_activity_name, ok |-> ok])
    /\ synced' = synced + 1
    /\ UNCHANGED <<garmin_activities, strava_activities, sync_ignore_list,
                   passes, earlier>>
    /\ outside_sync

\* How many runs of the name syncer one behaviour has.
MaxPasses == 2

\* Strava after the calls that went through (line 249: update_activity sets
\* the activity's name), as the next run's get_strava_activities reads it.
Renamed(strava, calls) ==
    [k \in DOMAIN strava |->
        LET done == {i \in DOMAIN calls :
                        calls[i].activity_id = strava[k].id /\ calls[i].ok}
        IN  IF done = {} THEN strava[k]
            ELSE [id |-> strava[k].id,
                  name |-> calls[CHOOSE i \in done :
                                     \A j \in done : j <= i].new_name]]

\* NextPass that reads the Strava snapshot of the run before again.
NextPassStaleStrava ==
    /\ synced = Cardinality(DOMAIN garmin_activities)
    /\ passes + 1 < MaxPasses
    /\ passes' = passes + 1
    /\ earlier' = renames
    /\ strava_activities' = strava_activities
    /\ synced' = 0
    /\ renames' = << >>
    /\ UNCHANGED <<garmin_activities, sync_ignore_list>>
    /\ outside_sync

\* Lines 304-351, a later run of the script: nothing is kept from the run
\* before; the two snapshots are fetched again (Garmin as it was, Strava
\* with the names the calls gave it) and the pass starts over.
NextPass ==
    /\ synced = Cardinality(DOMAIN garmin_activities)
    /\ passes + 1 < MaxPasses
    /\ passes' = passes + 1
    /\ earlier' = renames
    /\ strava_activities' = Renamed(strava_activities, renames)
    /\ synced' = 0
    /\ renames' = << >>
    /\ UNCHANGED <<garmin_activities, sync_ignore_list>>
    /\ outside_sync

SyncNext ==
    \/ SkipIgnored
    \/ NoRename
    \/ RenameActivity
    \/ NextPass

SyncSpec == SyncInit /\ [][SyncNext]_vars

\* ------------------------------------ name_syncer.py: the requested window
\* Instants are hours since a day that began at midnight UTC; a date is a
\* number of days since then.
HoursPerDay == 24
UTC8 == 8
WindowDays == 7

\* How many days datetime.now(timezone.utc) is taken from.
MaxClockDays == 2
Clock ==
    (WindowDays * HoursPerDay) ..
        (WindowDays * HoursPerDay + MaxClockDays * HoursPerDay - 1)

\* astimezone(timezone(timedelta(hours=8))) followed by strftime('%Y-%m-%d')
\* or .date(): the UTC+8 date of an instant.
utc8_date(instant) == (instant + UTC8) \div HoursPerDay

\* Lines 206-207: astimezone(UTC+8).replace(hour=0, minute=0, second=0,
\* microsecond=0): the instant the UTC+8 date of the instant begins at.
utc8_no_time(instant) == utc8_date(instant) * HoursPerDay - UTC8

\* Lines 143-158: get_activities_by_date(after_date, before_date).
GarminRequest(after_datetime_utc, before_datetime_utc) ==
    [after_date |-> utc8_date(after_datetime_utc),
     before_date |-> utc8_date(before_datetime_utc)]

\* StravaRequest that keeps the time of day.
StravaRequestWithTime(after_datetime_utc, before_datetime_utc) ==
    [after |-> after_datetime_utc, before |-> before_datetime_utc]

\* Lines 196-211: get_activities(after=..., before=...).
StravaRequest(after_datetime_utc, before_datetime_utc) ==
    [after |-> utc8_no_time(after_datetime_utc),
     before |-> utc8_no_time(before_datetime_utc)]

\* Lines 323-324.
before_datetime_utc == now_utc
after_datetime_utc == before_datetime_utc - WindowDays * HoursPerDay

\* How many activities a service lists.
MaxActivities == 2

\* What get_activities_by_date can give: the i-th activity listed has the
\* i-th id; two activities can have one start.
GarminLists ==
    UNION {{[i \in 1..n |-> [activityId |-> GarminId(i),
                             activityName |-> names[i],
                             startTimeGMT |-> starts[i]]] :
               names \in [1..n -> {<<"a">>, <<"b">>}],
               starts \in [1..n -> Timestamps]} : n \in 0..MaxActivities}

\* What the loop of line 217 can get from get_activities.
StravaLists ==
    UNION {{[i \in 1..n |-> [id |-> StravaId(i), name |-> names[i],
                             start_date |-> starts[i]]] :
               names \in [1..n -> {<<"a">>, <<"b">>}],
               starts \in [1..n -> Timestamps]} : n \in 0..MaxActivities}

\* garmin_activity_map that keeps the entry a key got first.
RECURSIVE garmin_activity_map_keeps_first(_)
garmin_activity_map_keeps_first(activities) ==
    IF activities = << >> THEN << >>
    ELSE LET activity == activities[1]
             activity_map == garmin_activity_map_keeps_first(Tail(activities))
         IN  [k \in DOMAIN activity_map \cup {activity.startTimeGMT} |->
                 IF k = activity.startTimeGMT
                 THEN [id |-> activity.activityId,
                       name |-> activity.activityName]
                 ELSE activity_map[k]]

\* Lines 152 and 166-175: activity_map[startTimeGMT] = {"id", "name"} for
\* every activity, in the order listed.
RECURSIVE garmin_activity_map(_)
garmin_activity_map(activities) ==
    IF activities = << >> THEN << >>
    ELSE LET activity == activities[Len(activities)]
             activity_map ==
                 garmin_activity_map(SubSeq(activities, 1,
                                            Len(activities) - 1))
         IN  [k \in DOMAIN activity_map \cup {activity.startTimeGMT} |->
                 IF k = activity.startTimeGMT
                 THEN [id |-> activity.activityId,
                       name |-> activity.activityName]
                 ELSE activity_map[k]]

\* Line 219: start_date.strftime('%Y-%m-%d %H:%M:%S'); the start
\* timestamps are numbered by these strings.
formatted_start_date(activity) == activity.start_date

\* Lines 203 and 217-225: activity_map[formatted_start_date] = {"id",
\* "name"} for every activity, in the order listed.
RECURSIVE strava_activity_map(_)
strava_activity_map(activities) ==
    IF activities = << >> THEN << >>
    ELSE LET activity == activities[Len(activities)]
             activity_map ==
                 strava_activity_map(SubSeq(activities, 1,
                                            Len(activities) - 1))
         IN  [k \in DOMAIN activity_map \cup {formatted_start_date(activity)}
                 |-> IF k = formatted_start_date(activity)
                     THEN [id |-> activity.id, name |-> activity.name]
                     ELSE activity_map[k]]

\* The keys of a dict in the order they were inserted in: a key keeps the
\* place of its first assignment.
RECURSIVE inserted_keys(_)
inserted_keys(keys) ==
    IF keys = << >> THEN << >>
    ELSE LET before == inserted_keys(SubSeq(keys, 1, Len(keys) - 1))
             key == keys[Len(keys)]
         IN  IF \E i \in 1..Len(before) : before[i] = key THEN before
             ELSE Append(before, key)

\* Lines 183-184 and 267: the keys of garmin_activities in the order its
\* items come in.
garmin_items(activities) ==
    sorted_items(inserted_keys([i \in 1..Len(activities) |->
                                   activities[i].startTimeGMT]))

outside_window ==
    UNCHANGED <<steps_vars, patch_vars, notify_vars, cursor_vars,
                csv_vars, roundtrip_vars>>

\* Line 323: the clock is read.
WindowInit ==
    /\ now_utc \in Clock
    /\ window_pc = "clock"
    /\ garmin_request = NoRequest
    /\ strava_request = NoRequest
    /\ garmin_fetch = NoFetch
    /\ strava_fetch = NoFetch
    /\ StepsParked
    /\ PatchParked
    /\ SyncParked
    /\ NotifyParked
    /\ CursorParked
    /\ CsvParked
    /\ RoundTripParked

\* GetGarminActivities that goes on to Strava whatever the call gave.
GetGarminActivitiesUngated ==
    /\ window_pc = "clock"
    /\ garmin_request' = GarminRequest(after_datetime_utc, before_datetime_utc)
    /\ \E success \in BOOLEAN, activities \in GarminLists :
          /\ ~success => activities = << >>
          /\ garmin_fetch' = [called |-> TRUE, success |-> success,
                              activities |-> activities]
          /\ garmin_activities' = garmin_activity_map(activities)
          /\ window_pc' = "strava"
    /\ UNCHANGED <<now_utc, strava_request, strava_fetch, strava_activities,
                   sync_ignore_list, synced, renames, passes, earlier>>
    /\ outside_window

\* Lines 327-329 and 344-348, with 141-192: get_garmin_activities; the call
\* fails, or gives a list, of which the mapping is made; main goes on when
\* the call succeeded and the mapping is not empty.
GetGarminActivities ==
    /\ window_pc = "clock"
    /\ garmin_request' = GarminRequest(after_datetime_utc, before_datetime_utc)
    /\ \E success \in BOOLEAN, activities \in GarminLists :
          /\ ~success => activities = << >>
          /\ garmin_fetch' = [called |-> TRUE, success |-> success,
                              activities |-> activities]
          /\ garmin_activities' = garmin_activity_map(activities)
          /\ window_pc' = IF ~success THEN "garmin_failed"
                          ELSE IF garmin_activities' = << >> THEN "no_garmin"
                          ELSE "strava"
    /\ UNCHANGED <<now_utc, strava_request, strava_fetch, strava_activities,
                   sync_ignore_list, synced, renames, passes, earlier>>
    /\ outside_window

\* Lines 333-343, with 195-242: get_strava_activities; the call raises and
\* (False, {}) is returned, or it gives a list, of which the mapping is
\* made; main goes on when the call succeeded and the mapping is not empty.
GetStravaActivities ==
    /\ window_pc = "strava"
    /\ strava_request' = StravaRequest(after_datetime_utc, before_datetime_utc)
    /\ \E success \in BOOLEAN, activities \in StravaLists :
          /\ ~success => activities = << >>
          /\ strava_fetch' = [called |-> TRUE, success |-> success,
                              activities |-> activities]
          /\ strava_activities' = strava_activity_map(activities)
          /\ window_pc' = IF ~success THEN "strava_failed"
                          ELSE IF strava_activities' = << >> THEN "no_strava"
                          ELSE "sync"
    /\ UNCHANGED <<now_utc, garmin_request, garmin_fetch, garmin_activities,
                   sync_ignore_list, synced, renames, passes, earlier>>
    /\ outside_window

\* Lines 217 and 349-351: the requests the loop over the activities makes
\* raise: the handler of main prints the error and exits.
GetStravaActivitiesRaises ==
    /\ window_pc = "strava"
    /\ strava_request' = StravaRequest(after_datetime_utc, before_datetime_utc)
    /\ strava_fetch' = [called |-> TRUE, success |-> FALSE,
                        activities |-> << >>]
    /\ window_pc' = "error"
    /\ UNCHANGED <<now_utc, garmin_request, garmin_fetch, garmin_activities,
                   strava_activities, sync_ignore_list, synced, renames,
                   passes, earlier>>
    /\ outside_window

\* Line 338, with 255-280: sync_name_from_garmin_to_strava reads the
\* ignore file and goes through the items of garmin_activities; every
\* update_activity succeeds or raises.
SyncNameFromGarminToStrava ==
    /\ window_pc = "sync"
    /\ \E ignore_list \in {list \in IgnoreLists : Len(list) <= 1} :
          LET calls == sync_calls(garmin_items(garmin_fetch.activities),
                                  garmin_activities, strava_activities,
                                  ignore_list)
          IN  /\ sync_ignore_list' = ignore_list
              /\ \E oks \in [1..Len(calls) -> BOOLEAN] :
                    renames' = [i \in 1..Len(calls) |->
                                   [activity_id |-> calls[i][1],
                                    new_name |-> calls[i][2],
                                    ok |-> oks[i]]]
    /\ synced' = Cardinality(DOMAIN garmin_activities)
    /\ window_pc' = "synced"
    /\ UNCHANGED <<now_utc, garmin_request, strava_request, garmin_fetch,
                   strava_fetch, garmin_activities, strava_activities,
                   passes, earlier>>
    /\ outside_window

WindowNext ==
    \/ GetGarminActivities
    \/ GetStravaActivities
    \/ GetStravaActivitiesRaises
    \/ SyncNameFromGarminToStrava

WindowSpec == WindowInit /\ [][WindowNext]_vars

\* ------------------------------------------- index_checker.py: main
\* The months, signals and scores a row of the CSV can have.
MaxScore == 2
IndexDates == {1, 2}
Signals == {"green", "red"}
Scores == 1..MaxScore

\* How many times the notifier is invoked in one behaviour.
MaxInvocations == 3

\* Lines 129-133: new_data.
Snapshots ==
    [latest_date : IndexDates, latest_signal : Signals,
     latest_signal_score : Scores]

\* NDC_INDEX: not set, not JSON, or a JSON object; dict.get gives None for a
\* key the object does not have.
NotSet == [kind |-> "not set"]
NotJson == [kind : {"not json"}, text : {"{", "N/A"}]
NoneValue == 0 - 1
StoredSnapshots ==
    [kind : {"object"}, latest_date : IndexDates, latest_signal : Signals,
     latest_signal_score : Scores \cup {NoneValue}]
StoredValues == {NotSet} \cup NotJson \cup StoredSnapshots

\* Line 161: json.dumps(new_data), as a later json.loads reads it.
new_data_json(new) ==
    [kind |-> "object", latest_date |-> new.latest_date,
     latest_signal |-> new.latest_signal,
     latest_signal_score |-> new.latest_signal_score]

\* should_update, were a text that is not JSON left as it is.
should_update_unless_not_json(env, new) ==
    IF env.kind = "not set" THEN TRUE
    ELSE IF env.kind = "not json" THEN FALSE
    ELSE \/ env.latest_date # new.latest_date
         \/ env.latest_signal # new.latest_signal
         \/ env.latest_signal_score # new.latest_signal_score

\* Lines 135-160: should_update.
should_update(env, new) ==
    IF env.kind = "not set" THEN TRUE
    ELSE IF env.kind = "not json" THEN TRUE
    ELSE \/ env.latest_date # new.latest_date
         \/ env.latest_signal # new.latest_signal
         \/ env.latest_signal_score # new.latest_signal_score

\* Lines 166-177: "old_signal_score" in locals().
has_old_signal_score(env) == env.kind = "object"

\* Lines 178-180: int < int and int > int; None < int raises TypeError.
raises_type_error(env) ==
    has_old_signal_score(env) /\ env.latest_signal_score = NoneValue

\* Lines 176-181: trend_icon.
trend_icon(env, new) ==
    IF ~has_old_signal_score(env) THEN "none"
    ELSE IF env.latest_signal_score < new.latest_signal_score THEN "up"
    ELSE IF env.latest_signal_score > new.latest_signal_score THEN "down"
    ELSE "none"

\* Lines 165-172: old_data_str: 'None', the date, signal and score of the
\* stored object, or, when json.loads raises, the stored text as it is.
old_data_str(env) ==
    IF env.kind = "not set" THEN [kind |-> "None"]
    ELSE IF env.kind = "object"
         THEN [kind |-> "formatted", latest_date |-> env.latest_date,
               latest_signal |-> env.latest_signal,
               old_signal_score |-> env.latest_signal_score]
         ELSE env

outside_notify ==
    UNCHANGED <<steps_vars, patch_vars, sync_vars, window_vars, cursor_vars,
                csv_vars, roundtrip_vars>>

\* The first invocation: the workflow passes the repository variable.
NotifyInit ==
    /\ ndc_index \in StoredValues
    /\ ndc_index_env = ndc_index
    /\ new_data \in Snapshots
    /\ notify_pc = "compare"
    /\ invocation = 0
    /\ line_configured \in BOOLEAN
    /\ github_actions \in BOOLEAN
    /\ line_messages = << >>
    /\ persists = << >>
    /\ StepsParked
    /\ PatchParked
    /\ SyncParked
    /\ WindowParked
    /\ CursorParked
    /\ CsvParked
    /\ RoundTripParked

\* Lines 135-155: the three fields are equal.
UpToDate ==
    /\ notify_pc = "compare"
    /\ ~should_update(ndc_index_env, new_data)
    /\ notify_pc' = "done"
    /\ UNCHANGED <<ndc_index, ndc_index_env, new_data, invocation,
                   line_configured, github_actions, line_messages, persists>>
    /\ outside_notify

\* Lines 160-178 and 217-218: the stored object has no score; the
\* comparison of line 178 raises, and the handler of main prints the error.
TrendRaises ==
    /\ notify_pc = "compare"
    /\ should_update(ndc_index_env, new_data)
    /\ raises_type_error(ndc_index_env)
    /\ notify_pc' = "error"
    /\ UNCHANGED <<ndc_index, ndc_index_env, new_data, invocation,
                   line_configured, github_actions, line_messages, persists>>
    /\ outside_notify

\* Lines 160-198: the message with the old and the new values and the
\* trend is handed to send_line_message, when a token and a user are set.
Notify ==
    /\ notify_pc = "compare"
    /\ should_update(ndc_index_env, new_data)
    /\ ~raises_type_error(ndc_index_env)
    /\ line_messages' =
          IF line_configured
          THEN Append(line_messages,
                      [invocation |-> invocation, old |-> ndc_index_env,
                       old_data_str |-> old_data_str(ndc_index_env),
                       new |-> new_data,
                       trend |-> trend_icon(ndc_index_env, new_data)])
          ELSE line_messages
    /\ notify_pc' = "persist"
    /\ UNCHANGED <<ndc_index, ndc_index_env, new_data, invocation,
                   line_configured, github_actions, persists>>
    /\ outside_notify

\* gh variable set, were it run before the message is prepared.
PersistedFirst ==
    /\ notify_pc = "compare"
    /\ should_update(ndc_index_env, new_data)
    /\ github_actions
    /\ \E ok \in BOOLEAN :
          /\ persists' = Append(persists,
                                [invocation |-> invocation, ok |-> ok])
          /\ ndc_index' = IF ok THEN new_data_json(new_data) ELSE ndc_index
    /\ notify_pc' = "done"
    /\ UNCHANGED <<ndc_index_env, new_data, invocation, line_configured,
                   github_actions, line_messages>>
    /\ outside_notify

\* Lines 201-213: gh variable set NDC_INDEX: it succeeds, or it exits with
\* an error, which is printed.
Persisted ==
    /\ notify_pc = "persist"
    /\ github_actions
    /\ \E ok \in BOOLEAN :
          /\ persists' = Append(persists,
                                [invocation |-> invocation, ok |-> ok])
          /\ ndc_index' = IF ok THEN new_data_json(new_data) ELSE ndc_index
    /\ notify_pc' = "done"
    /\ UNCHANGED <<ndc_index_env, new_data, invocation, line_configured,
                   github_actions, line_messages>>
    /\ outside_notify

\* Lines 201 and 214-215: not in GitHub Actions.
PersistSkipped ==
    /\ notify_pc = "persist"
    /\ ~github_actions
    /\ notify_pc' = "done"
    /\ UNCHANGED <<ndc_index, ndc_index_env, new_data, invocation,
                   line_configured, github_actions, line_messages, persists>>
    /\ outside_notify

\* The notifier is invoked again and the CSV gives the same snapshot: the
\* workflow passes the repository variable as it is now.
NextInvocation ==
    /\ notify_pc \in {"done", "error"}
    /\ invocation + 1 < MaxInvocations
    /\ invocation' = invocation + 1
    /\ ndc_index_env' = ndc_index
    /\ notify_pc' = "compare"
    /\ UNCHANGED <<ndc_index, new_data, line_configured, github_actions,
                   line_messages, persists>>
    /\ outside_notify

NotifyNext ==
    \/ UpToDate
    \/ TrendRaises
    \/ Notify
    \/ Persisted
    \/ PersistSkipped
    \/ NextInvocation

NotifySpec == NotifyInit /\ [][NotifyNext]_vars

\* ------ garmin-steps-syncer/garmin_steps_to_google_fit.py: the watermark
\* ------ as it is written and read
\* The fields a watermark is taken from.  strftime('%Y') is taken for years
\* of four digits.
\* calendar: the days a month has.
days_in_month(year, month) ==
    IF month = 2
    THEN (IF year % 4 = 0 /\ (year % 100 # 0 \/ year % 400 = 0) THEN 29
          ELSE 28)
    ELSE IF month \in {4, 6, 9, 11} THEN 30 ELSE 31

\* The aware datetimes parse_datetime_with_timezone gives (line 131).
Datetimes ==
    {dt \in [year : {2024, 2025, 9999}, month : {1, 2, 12},
             day : {1, 9, 28, 29, 31}, hour : {0, 9, 13, 23},
             minute : {0, 59}, second : {0, 7, 59},
             microsecond : {0, 500000}, tzinfo : {"UTC"}] :
        dt.day <= days_in_month(dt.year, dt.month)}

\* The characters of the decimal digits.
DecimalChars == <<"0", "1", "2", "3", "4", "5", "6", "7", "8", "9">>
DecimalValue(c) == (CHOOSE i \in 1..10 : DecimalChars[i] = c) - 1

\* A number in a field of the given width, padded with zeros.
RECURSIVE zero_padded(_, _)
zero_padded(n, width) ==
    IF width = 0 THEN << >>
    ELSE zero_padded(n \div 10, width - 1) \o <<DecimalChars[(n % 10) + 1]>>

\* The number a string of digits is.
RECURSIVE number_of(_)
number_of(digits) ==
    IF digits = << >> THEN 0
    ELSE 10 * number_of(SubSeq(digits, 1, Len(digits) - 1))
            + DecimalValue(digits[Len(digits)])

\* strftime that writes the hour of a 12-hour clock (%I).
strftime_12_hour(dt) ==
    zero_padded(dt.year, 4) \o <<"-">> \o zero_padded(dt.month, 2) \o <<"-">>
        \o zero_padded(dt.day, 2) \o <<"T">>
        \o zero_padded(IF dt.hour % 12 = 0 THEN 12 ELSE dt.hour % 12, 2)
        \o <<":">> \o zero_padded(dt.minute, 2) \o <<":">>
        \o zero_padded(dt.second, 2) \o <<".", "0">>

\* Line 437: strftime("%Y-%m-%dT%H:%M:%S.0").
strftime(dt) ==
    zero_padded(dt.year, 4) \o <<"-">> \o zero_padded(dt.month, 2) \o <<"-">>
        \o zero_padded(dt.day, 2) \o <<"T">> \o zero_padded(dt.hour, 2)
        \o <<":">> \o zero_padded(dt.minute, 2) \o <<":">>
        \o zero_padded(dt.second, 2) \o <<".", "0">>

\* The places of the characters of a text that are not digits, and the
\* strings of digits between them.
LiteralPlaces(date_str) ==
    {i \in 1..Len(date_str) :
        \A j \in 1..10 : DecimalChars[j] # date_str[i]}
LiteralPlace(date_str, k) ==
    CHOOSE p \in LiteralPlaces(date_str) :
        Cardinality({q \in LiteralPlaces(date_str) : q < p}) = k - 1
Field(date_str, k) ==
    SubSeq(date_str,
           IF k = 1 THEN 1 ELSE LiteralPlace(date_str, k - 1) + 1,
           IF k = 7 THEN Len(date_str) ELSE LiteralPlace(date_str, k) - 1)

\* %f: one to six digits, the most significant first.
RECURSIVE fraction_micros(_, _)
fraction_micros(digits, width) ==
    IF width = 0 THEN 0
    ELSE (IF digits = << >> THEN 0 ELSE DecimalValue(digits[1]))
             * (10 ^ (width - 1))
         + fraction_micros(IF digits = << >> THEN << >> ELSE Tail(digits),
                           width - 1)

\* Line 130: datetime.strptime(date_str, "%Y-%m-%dT%H:%M:%S.%f") raises
\* ValueError.
strptime_raises(date_str) ==
    \/ Cardinality(LiteralPlaces(date_str)) # 6
    \/ \E k \in 1..6 :
          date_str[LiteralPlace(date_str, k)]
              # <<"-", "-", "T", ":", ":", ".">>[k]
    \/ Len(Field(date_str, 1)) # 4
    \/ \E k \in 2..6 : Len(Field(date_str, k)) \notin 1..2
    \/ Len(Field(date_str, 7)) \notin 1..6
    \/ number_of(Field(date_str, 2)) \notin 1..12
    \/ number_of(Field(date_str, 3)) \notin
          1..days_in_month(number_of(Field(date_str, 1)),
                           number_of(Field(date_str, 2)))
    \/ number_of(Field(date_str, 4)) \notin 0..23
    \/ number_of(Field(date_str, 5)) \notin 0..59
    \/ number_of(Field(date_str, 6)) \notin 0..59

\* Line 130: the naive datetime strptime gives.
strptime(date_str) ==
    [year |-> number_of(Field(date_str, 1)),
     month |-> number_of(Field(date_str, 2)),
     day |-> number_of(Field(date_str, 3)),
     hour |-> number_of(Field(date_str, 4)),
     minute |-> number_of(Field(date_str, 5)),
     second |-> number_of(Field(date_str, 6)),
     microsecond |-> fraction_micros(Field(date_str, 7), 6),
     tzinfo |-> "None"]

\* Lines 129-134, as main calls it (line 357), on a text: strptime and
\* replace(tzinfo=tz), or None.
NoneDatetime == [tzinfo |-> "not a datetime"]
parse_datetime_text(date_str) ==
    IF strptime_raises(date_str) THEN NoneDatetime
    ELSE [strptime(date_str) EXCEPT !.tzinfo = "UTC"]

outside_roundtrip ==
    UNCHANGED <<steps_vars, patch_vars, sync_vars, window_vars, notify_vars,
                cursor_vars, csv_vars>>

\* A run is at its persist step.
RoundTripInit ==
    /\ watermark \in Datetimes
    /\ watermark_text = << >>
    /\ reparsed = << >>
    /\ roundtrip_pc = "persist"
    /\ StepsParked
    /\ PatchParked
    /\ SyncParked
    /\ WindowParked
    /\ NotifyParked
    /\ CursorParked
    /\ CsvParked

\* Lines 434-437: the watermark is written.
WriteWatermark ==
    /\ roundtrip_pc = "persist"
    /\ watermark_text' = strftime(watermark)
    /\ roundtrip_pc' = "written"
    /\ UNCHANGED <<watermark, reparsed>>
    /\ outside_roundtrip

\* Lines 356-360 of the next run, which gets the text as
\* GARMIN_STEPS_LAST_STARTGMT.
ReadWatermark ==
    /\ roundtrip_pc = "written"
    /\ reparsed' = parse_datetime_text(watermark_text)
    /\ roundtrip_pc' = IF reparsed' = NoneDatetime THEN "exit" ELSE "parsed"
    /\ UNCHANGED <<watermark, watermark_text>>
    /\ outside_roundtrip

RoundTripNext ==
    \/ WriteWatermark
    \/ ReadWatermark

RoundTripSpec == RoundTripInit /\ [][RoundTripNext]_vars

\* ------------------------------- index_checker.py: main, the latest row
\* How many rows the CSV has at most.
MaxRows == 3

\* The place of a character of the cells in the order of the code points.
CharCode(c) ==
    CHOOSE i \in 1..8 : <<"+", "-", ".", "0", "1", "2", "9", "x">>[i] = c

\* The rows a CSV can have: the Date, signal and score cells as texts.
CsvRows ==
    [Date : {<<"9">>, <<"1", "0">>, <<"1", "1">>},
     signal : {<<"-">>, <<"x">>},
     score : {<<"-">>, << >>, <<"2">>, <<"1", "0">>, <<"1", ".", "0">>}]
CsvFiles == UNION {[1..n -> CsvRows] : n \in 0..MaxRows}

\* Line 96: int(text) raises ValueError unless the text is a sign, if any,
\* and digits.
unsigned_digits(text) ==
    IF text # << >> /\ text[1] \in {"+", "-"} THEN Tail(text) ELSE text
int_raises(text) ==
    \/ unsigned_digits(text) = << >>
    \/ \E i \in 1..Len(unsigned_digits(text)) :
          \A j \in 1..10 : DecimalChars[j] # unsigned_digits(text)[i]
int(text) ==
    IF text # << >> /\ text[1] = "-"
    THEN 0 - number_of(unsigned_digits(text))
    ELSE number_of(unsigned_digits(text))

\* Lines 91-99: the rows kept, the score converted.
RECURSIVE read_valid_rows(_)
read_valid_rows(rows) ==
    IF rows = << >> THEN << >>
    ELSE LET row == rows[1]
             rest == read_valid_rows(Tail(rows))
         IN  IF row.signal # <<"-">> /\ row.score # <<"-">>
                    /\ ~int_raises(row.score)
             THEN <<[Date |-> row.Date, signal |-> row.signal,
                     score |-> int(row.score)]>> \o rest
             ELSE rest

\* Python's order of two strings: by the code points, a prefix first.
str_less(a, b) ==
    \E i \in 1..(Len(a) + 1) :
        /\ i <= Len(b)
        /\ \A j \in 1..(i - 1) : a[j] = b[j]
        /\ i <= Len(a) => CharCode(a[i]) < CharCode(b[i])

\* list.sort, were it called without reverse.
RECURSIVE sort_by_date_ascending(_)
sort_by_date_ascending(rows) ==
    IF rows = << >> THEN << >>
    ELSE LET row == rows[Len(rows)]
             sorted == sort_by_date_ascending(SubSeq(rows, 1, Len(rows) - 1))
             before == {i \in 1..Len(sorted) : ~str_less(row.Date, sorted[i].Date)}
         IN  SubSeq(sorted, 1, Cardinality(before)) \o <<row>>
                 \o SubSeq(sorted, Cardinality(before) + 1, Len(sorted))

\* Line 106: valid_rows.sort(key=Date, reverse=True): the greatest Date
\* first, rows of one Date in the order they had.
RECURSIVE sort_by_date_reverse(_)
sort_by_date_reverse(rows) ==
    IF rows = << >> THEN << >>
    ELSE LET row == rows[Len(rows)]
             sorted == sort_by_date_reverse(SubSeq(rows, 1, Len(rows) - 1))
             before == {i \in 1..Len(sorted) : ~str_less(sorted[i].Date, row.Date)}
         IN  SubSeq(sorted, 1, Cardinality(before)) \o <<row>>
                 \o SubSeq(sorted, Cardinality(before) + 1, Len(sorted))

outside_csv ==
    UNCHANGED <<steps_vars, patch_vars, sync_vars, window_vars, cursor_vars,
                roundtrip_vars>>

\* The CSV has been found and opened.
CsvInit ==
    /\ csv_rows \in CsvFiles
    /\ valid_rows = << >>
    /\ latest_row = << >>
    /\ csv_pc = "read"
    /\ StepsParked
    /\ PatchParked
    /\ SyncParked
    /\ WindowParked
    /\ NotifyParked
    /\ CursorParked
    /\ RoundTripParked

\* Lines 88-99: the rows are read.
ReadRows ==
    /\ csv_pc = "read"
    /\ valid_rows' = read_valid_rows(csv_rows)
    /\ csv_pc' = "rows"
    /\ UNCHANGED <<csv_rows, latest_row, notify_vars>>
    /\ outside_csv

\* Lines 101-103: no valid data; main returns.
NoValidData ==
    /\ csv_pc = "rows"
    /\ valid_rows = << >>
    /\ csv_pc' = "returned"
    /\ UNCHANGED <<csv_rows, valid_rows, latest_row, notify_vars>>
    /\ outside_csv

\* Lines 105-133: the rows are sorted, the first is the latest row and
\* new_data is taken from it.
LatestRow ==
    /\ csv_pc = "rows"
    /\ valid_rows # << >>
    /\ valid_rows' = sort_by_date_reverse(valid_rows)
    /\ latest_row' = valid_rows'[1]
    /\ new_data' = [latest_date |-> latest_row'.Date,
                    latest_signal |-> latest_row'.signal,
                    latest_signal_score |-> latest_row'.score]
    /\ csv_pc' = "latest"
    /\ UNCHANGED <<csv_rows, ndc_index, ndc_index_env, notify_pc, invocation,
                   line_configured, github_actions, line_messages, persists>>
    /\ outside_csv

CsvNext ==
    \/ ReadRows
    \/ NoValidData
    \/ LatestRow

CsvSpec == CsvInit /\ [][CsvNext]_vars

\* ------------- garmin_steps.py and the root garmin_steps_to_google_fit.py
\* The two scripts that keep a date, not a timestamp.
Variants == {"garmin_steps", "garmin_steps_to_google_fit"}

\* filter_day_steps of the two scripts: strptime raises ValueError on the
\* startGMT of an entry with steps.
filter_raises(day_steps) ==
    \E i \in 1..Len(day_steps) :
        day_steps[i].steps > 0 /\ day_steps[i].startGMT = BadString

\* filter_day_steps of the two scripts: the entries with steps, their
\* times in milliseconds.
filter_steps(day_steps) ==
    LET kept == SelectSeq(day_steps, LAMBDA e : e.steps > 0)
    IN  [i \in 1..Len(kept) |->
            [startGMTMillis |-> TimestampMillis(kept[i].startGMT),
             endGMTMillis |-> TimestampMillis(kept[i].endGMT),
             steps |-> kept[i].steps]]

\* is_one_day_steps_are_all_synced: strptime raises ValueError on the last
\* entry's startGMT.
all_synced_raises(day_steps) ==
    day_steps[Len(day_steps)].startGMT = BadString

\* is_one_day_steps_are_all_synced
is_one_day_steps_are_all_synced(day_steps) ==
    IF day_steps = << >> THEN FALSE
    ELSE LET last_entry_startGMT ==
                 astimezone_taipei(day_steps[Len(day_steps)].startGMT)
         IN  ~(HourOf(last_entry_startGMT) # 23
               \/ MinuteOf(last_entry_startGMT) # 45)

\* one_day that goes on to the next day whatever the day's list ends with.
one_day_never_breaks(script, day_steps) ==
    IF filter_raises(day_steps)
    THEN [inserts |-> << >>, then |-> "raise"]
    ELSE LET filtered_steps_ == filter_steps(day_steps)
             inserts == IF script = "garmin_steps_to_google_fit"
                        THEN <<filtered_steps_>> ELSE << >>
         IN  IF script = "garmin_steps_to_google_fit" /\ filtered_steps_ = << >>
             THEN [inserts |-> inserts, then |-> "raise"]
             ELSE IF all_synced_raises(day_steps)
             THEN [inserts |-> inserts, then |-> "raise"]
             ELSE [inserts |-> inserts, then |-> "next"]

\* The body of the while loop for a day whose list is not empty
\* (garmin_steps.py lines 187-198, root script lines 364-376): the insert
\* calls made, and how the iteration ends: an exception, a break, or the
\* next day.  In the root script data_point_set[0] (line 284) raises
\* IndexError when the filtered list is empty.
one_day(script, day_steps) ==
    IF filter_raises(day_steps)
    THEN [inserts |-> << >>, then |-> "raise"]
    ELSE LET filtered_steps_ == filter_steps(day_steps)
             inserts == IF script = "garmin_steps_to_google_fit"
                        THEN <<filtered_steps_>> ELSE << >>
         IN  IF script = "garmin_steps_to_google_fit" /\ filtered_steps_ = << >>
             THEN [inserts |-> inserts, then |-> "raise"]
             ELSE IF all_synced_raises(day_steps)
             THEN [inserts |-> inserts, then |-> "raise"]
             ELSE IF ~is_one_day_steps_are_all_synced(day_steps)
             THEN [inserts |-> inserts, then |-> "break"]
             ELSE [inserts |-> inserts, then |-> "next"]

outside_cursor ==
    UNCHANGED <<steps_vars, patch_vars, sync_vars, window_vars, notify_vars,
                csv_vars, roundtrip_vars>>

\* The environment checks and init_api have passed.
CursorInit ==
    /\ variant \in Variants
    /\ cursor_pc = "start"
    /\ last_synced_date \in (1..(MaxDay + 1)) \cup {BadString}
    /\ cursor_date = 0
    /\ cursor_today \in Days
    /\ cursor_fetches = << >>
    /\ cursor_inserts = << >>
    /\ cursor_file = NoFile
    /\ StepsParked
    /\ PatchParked
    /\ SyncParked
    /\ WindowParked
    /\ NotifyParked
    /\ CsvParked
    /\ RoundTripParked

\* garmin_steps.py lines 177-180: the date parses and the cursor starts at
\* it; or strptime raises and the handler of lines 204-205 prints the error.
CursorStart ==
    /\ cursor_pc = "start"
    /\ IF last_synced_date = BadString
       THEN cursor_pc' = "caught" /\ UNCHANGED cursor_date
       ELSE cursor_pc' = "loop" /\ cursor_date' = last_synced_date
    /\ UNCHANGED <<variant, last_synced_date, cursor_today, cursor_fetches,
                   cursor_inserts, cursor_file>>
    /\ outside_cursor

\* Line 181: the cursor is past today.
CursorLoopExit ==
    /\ cursor_pc = "loop"
    /\ cursor_date > cursor_today
    /\ cursor_pc' = "persist"
    /\ UNCHANGED <<variant, last_synced_date, cursor_date, cursor_today,
                   cursor_fetches, cursor_inserts, cursor_file>>
    /\ outside_cursor

\* Lines 181-185: get_steps_by_date gives None (the call raised) or an
\* empty list: break.
CursorNoStepsData ==
    /\ cursor_pc = "loop"
    /\ cursor_date <= cursor_today
    /\ cursor_fetches' = Append(cursor_fetches,
                                [day |-> cursor_date, data |-> << >>])
    /\ cursor_pc' = "persist"
    /\ UNCHANGED <<variant, last_synced_date, cursor_date, cursor_today,
                   cursor_inserts, cursor_file>>
    /\ outside_cursor

\* Lines 181-198: get_steps_by_date gives a list and the body of the loop
\* runs.
CursorOneDay ==
    /\ cursor_pc = "loop"
    /\ cursor_date <= cursor_today
    /\ \E steps_data_ \in DayLists(cursor_date, MaxEntries) \ {<< >>} :
          LET did == one_day(variant, steps_data_)
          IN  /\ cursor_fetches' =
                    Append(cursor_fetches,
                           [day |-> cursor_date, data |-> steps_data_])
              /\ cursor_inserts' = cursor_inserts \o did.inserts
              /\ cursor_pc' = CASE did.then = "raise" -> "caught"
                                 [] did.then = "break" -> "persist"
                                 [] OTHER -> "loop"
              /\ cursor_date' = IF did.then = "next"
                                THEN NextDate(cursor_date) ELSE cursor_date
    /\ UNCHANGED <<variant, last_synced_date, cursor_today, cursor_file>>
    /\ outside_cursor

\* Lines 200-203: the cursor is written to the file.
CursorPersist ==
    /\ cursor_pc = "persist"
    /\ cursor_file' = cursor_date
    /\ cursor_pc' = "done"
    /\ UNCHANGED <<variant, last_synced_date, cursor_date, cursor_today,
                   cursor_fetches, cursor_inserts>>
    /\ outside_cursor

\* Line 181 reads the clock at every turn of the loop: midnight passes
\* during the run.
CursorDayPasses ==
    /\ cursor_pc = "loop"
    /\ cursor_today < MaxDay
    /\ cursor_today' = cursor_today + 1
    /\ UNCHANGED <<variant, cursor_pc, last_synced_date, cursor_date,
                   cursor_fetches, cursor_inserts, cursor_file>>
    /\ outside_cursor

CursorNext ==
    \/ CursorStart
    \/ CursorLoopExit
    \/ CursorNoStepsData
    \/ CursorOneDay
    \/ CursorPersist
    \/ CursorDayPasses

CursorSpec == CursorInit /\ [][CursorNext]_vars

\* The status the script's process ended with: 1 after exit(1); 0 when the
\* script ran to its last line, through the loop or through the handler of
\* lines 438-439; Running while it has not ended.
Running == 0 - 1
ExitStatus ==
    IF pc = "exit1" THEN 1
    ELSE IF pc \in {"done", "caught"} THEN 0
    ELSE Running

\* ------------------------------------------------------------- properties
\* What the properties say about lists, stated without the script's functions.

\* The local time of day at which an entry starts, in milliseconds.
LocalTimeOfDay(entry) == (entry.startGMT + TaipeiOffset) % MsPerDay

\* The entry starts within the minute 23:45 of its local day.
StartsAtLastQuarter(entry) ==
    /\ entry.startGMT # BadString
    /\ LocalTimeOfDay(entry) >= LastQuarter
    /\ LocalTimeOfDay(entry) < LastQuarter + MsPerMinute

\* Every start time parses and the list is in start-time order.
Chronological(list) ==
    /\ \A i \in 1..Len(list) : list[i].startGMT # BadString
    /\ \A i \in 1..Len(list) : \A j \in 1..Len(list) :
          i < j => list[i].startGMT <= list[j].startGMT

\* Every list the source holds is in start-time order.
SourceChronological == \A d \in Days : Chronological(garmin[d].data)

\* The positions of the entries that are to be forwarded under watermark w:
\* start and end parse, steps > 0, and the start is after w in whole seconds.
Wanted(list, w) ==
    {i \in 1..Len(list) :
        /\ list[i].startGMT # BadString
        /\ list[i].endGMT # BadString
        /\ list[i].steps > 0
        /\ list[i].startGMT \div 1000 > w \div 1000}

\* The k-th smallest member of a set of positions.
Nth(positions, k) ==
    CHOOSE i \in positions : Cardinality({j \in positions : j <= i}) = k

\* A watermark in whole seconds.
WholeSeconds(w) == w - (w % 1000)

\* The watermark this run started with.
StartWatermark == parse_datetime_with_timezone(last_startGMT)

\* C1: a run that reaches the persist step writes a watermark W' >= W, the
\* watermark it started with (both taken in whole seconds, as the file holds
\* whole seconds), whatever lists the source returned.
C1_WatermarkMonotone ==
    pc = "done" => new_last_startGMT_file >= WholeSeconds(StartWatermark)

\* C2: when the dataset patch of a day fails, the run stops at that day and
\* the watermark written at the end is the watermark as it was before that
\* day was processed.
C2_FailedWriteKeepsWatermark ==
    pc = "done" =>
        \A i \in 1..Len(upserts) :
            ~upserts[i].ok =>
                /\ i = Len(upserts)
                /\ fetches[Len(fetches)].day = upserts[i].day
                /\ new_last_startGMT_file = WholeSeconds(upserts[i].before)

\* The last day fetched in this run returned entries and is not complete.
LastDayIncomplete ==
    /\ steps_data # << >>
    /\ ~is_steps_are_all_done

\* Records of the last fetched day were forwarded.
ForwardedLastDay ==
    /\ upserts # << >>
    /\ upserts[Len(upserts)].day = fetches[Len(fetches)].day

\* The start times of the records forwarded in this run.
ForwardedStarts ==
    UNION {{upserts[i].data[k].startGMTMillis : k \in 1..Len(upserts[i].data)} :
              i \in 1..Len(upserts)}

\* The start time of the last record of the last insert.
LastForwardedStart ==
    LET data == upserts[Len(upserts)].data IN data[Len(data)].startGMTMillis

C4_FilterCorrect ==
    (pc = "fetched" /\ steps_data # << >>) =>
        LET wanted == Wanted(steps_data, last_startGMT_date)
        IN  /\ Len(filtered_steps) = Cardinality(wanted)
            /\ \A k \in 1..Len(filtered_steps) :
                  LET entry == steps_data[Nth(wanted, k)]
                  IN  /\ filtered_steps[k].startGMTMillis =
                            WholeSeconds(entry.startGMT)
                      /\ filtered_steps[k].endGMTMillis = entry.endGMT
                      /\ filtered_steps[k].steps = entry.steps
            /\ \A k \in 1..Len(filtered_steps) :
                  /\ filtered_steps[k].steps > 0
                  /\ filtered_steps[k].startGMTMillis \div 1000
                        > last_startGMT_date \div 1000

\* C4's case: the filter keeps an entry of the list and drops another that has
\* steps and starts after the watermark, but within the watermark's second.
C4_Witness ==
    /\ pc = "fetched"
    /\ filtered_steps # << >>
    /\ \E i \in 1..Len(steps_data) :
          /\ steps_data[i].steps > 0
          /\ steps_data[i].startGMT > last_startGMT_date
          /\ steps_data[i].endGMT # BadString
          /\ i \notin Wanted(steps_data, last_startGMT_date)

\* C5 as stated: over runs that each start from the watermark written by the
\* run before, on a source that only appends, no entry of the source is
\* passed to an insert more than once.
C5_NoReemission == chained => ~reemitted

\* On a source whose lists are all in start-time order, with start times that
\* parse, runs chained by the watermark file pass no entry on twice.
NoReemissionChronological ==
    (chained /\ SourceChronological) => ~reemitted

\* A chained run that started from its predecessor's file forwards entries
\* of a day of which the predecessor had forwarded others.
ChainedRunForwardsAppended ==
    /\ chained
    /\ SourceChronological
    /\ prev.upserts # << >>
    /\ upserts # << >>
    /\ upserts[1].day = prev.upserts[Len(prev.upserts)].day

\* The previous run and this one ran to the end on the same source and the
\* same date, and no fetch of either raised.
SameConditionsTwice ==
    /\ pc = "done"
    /\ prev.file # NoFile
    /\ ~prev.changed
    /\ ~prev.failed
    /\ ~FetchFailed

\* The positions of a day's list that an insert passed on.
SentPositions(u) == Wanted(u.raw, u.before)

\* No entry was written by two patch requests that differ: a request of this
\* run that carries an entry the previous run wrote is a repeat of that
\* request (same records, hence the same dataset id and body).
NoDuplicateWrites ==
    \A i \in 1..Len(prev.upserts) : \A j \in 1..Len(upserts) :
        LET u == prev.upserts[i]
            v == upserts[j]
        IN  (u.ok /\ v.ok /\ u.day = v.day
                /\ SentPositions(u) \cap SentPositions(v) # {})
            => u.data = v.data

IdempotentRestartChronological ==
    (SameConditionsTwice /\ SourceChronological) =>
        /\ new_last_startGMT_file = prev.file
        /\ NoDuplicateWrites

\* Two runs in a row: the first run forwarded records and moved the watermark, and the
\* second run, started from the first run's file, fetched the same day again.
SecondRunRefetches ==
    /\ SameConditionsTwice
    /\ SourceChronological
    /\ prev.chained
    /\ prev.upserts # << >>
    /\ prev.file # WholeSeconds(prev.env)
    /\ fetches # << >>
    /\ fetches[1].data # << >>

\* C7: on a fixed source, a record whose write failed in one run is passed to
\* an insert again by the next run, which starts from the file the failed run
\* wrote.
C7_FailedWriteRetried ==
    (SameConditionsTwice /\ prev.chained) =>
        \A i \in 1..Len(prev.upserts) :
            ~prev.upserts[i].ok =>
                \A k \in SentPositions(prev.upserts[i]) :
                    \E j \in 1..Len(upserts) :
                        /\ upserts[j].day = prev.upserts[i].day
                        /\ k \in SentPositions(upserts[j])

\* The days fetched so far in this run, and the last of them.
FetchCount == Len(fetches)
LastFetch == fetches[FetchCount]

\* C8: within a run the days are fetched one calendar day after another, every
\* fetched day but the last returned entries and was complete, and entries are
\* forwarded only for days that were fetched, each day at most once; so no day
\* is fetched, and nothing is forwarded, after an empty or incomplete day.
C8_StopAtFirstIncompleteDay ==
    /\ \A i \in 1..(FetchCount - 1) :
          /\ fetches[i + 1].day = fetches[i].day + 1
          /\ fetches[i].data # << >>
          /\ is_one_day_steps_are_all_done(fetches[i].data)
    /\ (pc = "loop" /\ fetches # << >>) =>
          /\ LastFetch.data # << >>
          /\ is_one_day_steps_are_all_done(LastFetch.data)
          /\ current_date = LastFetch.day + 1
    /\ (pc = "fetched") => current_date = LastFetch.day
    /\ (pc \in {"persist", "done"} /\ fetches # << >>) =>
          \/ current_date = LastFetch.day
          \/ /\ current_date = LastFetch.day + 1
             /\ is_one_day_steps_are_all_done(LastFetch.data)
    /\ \A j \in 1..Len(upserts) :
          /\ \E i \in 1..FetchCount :
                /\ fetches[i].day = upserts[j].day
                /\ fetches[i].data = upserts[j].raw
          /\ \A k \in 1..Len(upserts) : j < k => upserts[j].day < upserts[k].day

\* C8's case: a run forwarded entries of a complete day, went on to the next
\* day, forwarded entries of it, found it incomplete and stopped.
C8_Witness ==
    /\ pc = "done"
    /\ FetchCount = 2
    /\ Len(upserts) = 2
    /\ LastFetch.data # << >>
    /\ ~is_one_day_steps_are_all_done(LastFetch.data)

\* Every start time of the list parses.
AllStartsParse(list) == \A i \in 1..Len(list) : list[i].startGMT # BadString

\* A position of the list whose entry starts latest.
LatestStart(list) ==
    CHOOSE i \in 1..Len(list) :
        \A j \in 1..Len(list) : list[j].startGMT <= list[i].startGMT

\* C9: for a day's list (start times parse), is_one_day_steps_are_all_done is
\* true exactly when the list is not empty and the entry that is last in
\* start-time order starts at 23:45 in UTC+8.
C9_CompleteIffLatestStartsAtLastQuarter ==
    (pc = "fetched" /\ AllStartsParse(steps_data)) =>
        (is_one_day_steps_are_all_done(steps_data)
            <=> /\ steps_data # << >>
                /\ StartsAtLastQuarter(steps_data[LatestStart(steps_data)]))

\* What is_one_day_steps_are_all_done computes: true exactly when the list is
\* not empty and the entry in its last position starts at 23:45 in UTC+8.
CompleteIffLastPositionStartsAtLastQuarter ==
    pc = "fetched" =>
        (is_one_day_steps_are_all_done(steps_data)
            <=> /\ steps_data # << >>
                /\ StartsAtLastQuarter(steps_data[Len(steps_data)]))

\* A fetched day returned entries and none of them is to be forwarded.
NothingNewFetched ==
    /\ pc = "fetched"
    /\ steps_data # << >>
    /\ Wanted(steps_data, last_startGMT_date) = {}

\* C10: from a fetched day that is not empty and has nothing to forward, the
\* step taken calls no insert and leaves the watermark as it is; when
\* is_one_day_steps_are_all_done holds of the day's list the date moves on by
\* exactly one day and the loop continues, otherwise the loop ends on that day.
C10_NothingNewBranch ==
    [][NothingNewFetched =>
          /\ upserts' = upserts
          /\ last_startGMT_date' = last_startGMT_date
          /\ is_one_day_steps_are_all_done(steps_data) =>
                (pc' = "loop" /\ current_date' = current_date + 1)
          /\ ~is_one_day_steps_are_all_done(steps_data) =>
                (pc' = "persist" /\ current_date' = current_date)]_vars

\* C10's case: a run is back at the head of the loop, one day on, after a
\* complete day of which nothing was forwarded.
C10_Witness ==
    /\ pc = "loop"
    /\ fetches # << >>
    /\ upserts = << >>
    /\ Wanted(LastFetch.data, last_startGMT_date) = {}
    /\ is_one_day_steps_are_all_done(LastFetch.data)
    /\ current_date = LastFetch.day + 1

\* The script is in its loop, lines 398-432.
InLoop == pc \in {"loop", "fetched"}

\* C11: a run that got through its configuration and the set-up of its clients
\* writes the watermark file exactly once, as its last step, with the
\* watermark the loop ended with, whichever way the loop ended and whether or
\* not anything was forwarded: the loop is left only for the persist step,
\* the persist step writes the final watermark and ends the run, and the file
\* is written by no other step of the run.
C11_UnconditionalPersistence ==
    [][/\ (InLoop /\ ~InLoop') => pc' = "persist"
       /\ pc = "persist" =>
             /\ pc' = "done"
             /\ new_last_startGMT_file' = WholeSeconds(last_startGMT_date)
             /\ last_startGMT_date' = last_startGMT_date
       /\ (pc # "persist" /\ pc' # "start") =>
             new_last_startGMT_file' = new_last_startGMT_file
       /\ (pc # "done" /\ pc # "persist") => new_last_startGMT_file = NoFile]_vars

\* C11's case: a run whose loop made no iteration (the watermark's date is
\* after today) has written the watermark it started with.
C11_Witness ==
    /\ pc = "done"
    /\ fetches = << >>
    /\ new_last_startGMT_file = WholeSeconds(StartWatermark)

\* GARMIN_STEPS_LAST_STARTGMT is absent or does not parse.
WatermarkUnusable ==
    \/ last_startGMT = Unset
    \/ last_startGMT = BadString

\* C12: with GARMIN_STEPS_LAST_STARTGMT absent or unparsable the script ends
\* with a non-zero status and nothing else: no Google Fit request, no Garmin
\* fetch, no dataset patch and no watermark file.
C12_ConfigError ==
    WatermarkUnusable =>
        /\ pc \in {"start", "exit1"}
        /\ pc = "start" => ENABLED ConfigError
        /\ pc = "exit1" => ExitStatus # 0
        /\ datasource_calls = << >>
        /\ fetches = << >>
        /\ upserts = << >>
        /\ new_last_startGMT_file = NoFile

\* C12's case: the script has exited on a watermark that does not parse.
C12_Witness ==
    /\ last_startGMT = BadString
    /\ pc = "exit1"

\* The watermark the run has reached: the one it started with, or the one the
\* last insert left.
WatermarkReached ==
    IF upserts = << >> THEN StartWatermark
    ELSE LET u == upserts[Len(upserts)]
         IN  IF u.raw[Len(u.raw)].startGMT = BadString THEN u.before
             ELSE u.raw[Len(u.raw)].startGMT

\* C13: a get_steps_by_date call that raised gave the loop no data; it is the
\* last fetch of the run (the loop stopped, the day was not fetched again and
\* nothing of that day was forwarded), and the run ends by writing the
\* watermark reached before that day.
C13_FetchFailure ==
    \A i \in 1..Len(fetches) :
        fetches[i].failed =>
            /\ fetches[i].data = << >>
            /\ i = Len(fetches)
            /\ pc \in {"fetched", "persist", "done"}
            /\ pc = "fetched" => steps_data = << >>
            /\ \A j \in 1..Len(upserts) : upserts[j].day < fetches[i].day
            /\ \A k \in 1..Len(fetches) : k # i => fetches[k].day # fetches[i].day
            /\ last_startGMT_date = WatermarkReached
            /\ pc = "done" =>
                  new_last_startGMT_file = WholeSeconds(WatermarkReached)

\* C13's case: a run forwarded a complete day, the fetch of the next day
\* raised, and the run has written the watermark of the first day.
C13_Witness ==
    /\ pc = "done"
    /\ Len(fetches) = 2
    /\ fetches[2].failed
    /\ upserts # << >>
    /\ new_last_startGMT_file = WholeSeconds(WatermarkReached)
    /\ new_last_startGMT_file # WholeSeconds(StartWatermark)

\* C14: a run of the steps script that has ended either completed its pass,
\* with the watermark written, or ended with a non-zero status.
C14_RunOutcome ==
    ExitStatus # Running =>
        \/ pc = "done" /\ new_last_startGMT_file # NoFile
        \/ ExitStatus # 0

\* The run has a data source: it is past the get-or-create step.
HasDataSource == pc \in {"garmin", "loop", "fetched", "persist", "done"}

\* The last dataSources() request of the run.
LastDataSourceCall == datasource_calls[Len(datasource_calls)]

\* C16: the data source is looked up first, once, by the fixed id; a create
\* request follows exactly when the lookup answered 404, and there is at most
\* one; the run goes on only with the data source the last request returned
\* (found, or created); after any other lookup result or a failed create the
\* run has exited with a non-zero status, having fetched and written nothing.
C16_GetOrCreateDataSource ==
    /\ Len(datasource_calls) <= 2
    /\ \A i \in 1..Len(datasource_calls) :
          datasource_calls[i].dataSourceId = DataStreamId
    /\ (pc \in {"start", "secrets", "google_fit", "data_source"}) =>
          datasource_calls = << >>
    /\ datasource_calls # << >> =>
          /\ datasource_calls[1].request = "get"
          /\ Len(datasource_calls) = 2 <=> datasource_calls[1].result = "404"
          /\ Len(datasource_calls) = 2 => datasource_calls[2].request = "create"
          /\ HasDataSource => LastDataSourceCall.result \in {"found", "created"}
          /\ LastDataSourceCall.result \notin {"found", "created"} =>
                /\ pc = "exit1"
                /\ ExitStatus # 0
                /\ fetches = << >>
                /\ upserts = << >>
    /\ (fetches # << >> \/ upserts # << >>) => datasource_calls # << >>

\* C16's case: the lookup answered 404, the data source was created, and the
\* run went on to fetch.
C16_Witness ==
    /\ Len(datasource_calls) = 2
    /\ datasource_calls[1].result = "404"
    /\ datasource_calls[2].result = "created"
    /\ fetches # << >>

\* The other case: the lookup failed with another error and the run exited.
LookupErrorExits ==
    /\ Len(datasource_calls) = 1
    /\ datasource_calls[1].result = "http_error"
    /\ pc = "exit1"

\* The local day whose 23:45 bucket the run's watermark is, if it is one.
BoundaryDay == (StartWatermark + TaipeiOffset) \div MsPerDay
AtBoundary ==
    /\ pc \notin {"start", "exit1", "caught"}
    /\ StartWatermark = Instant(BoundaryDay, LastQuarter)

\* A day's list is a full set: in start-time order and ending with the 23:45
\* bucket.
FullDay(list) ==
    /\ list # << >>
    /\ Chronological(list)
    /\ StartsAtLastQuarter(list[Len(list)])

\* The entries of a list that have steps, as the records to forward.
HasSteps(entry) == entry.steps > 0
RECURSIVE StepsRecords(_)
StepsRecords(list) ==
    IF list = << >> THEN << >>
    ELSE LET rest == StepsRecords(Tail(list))
         IN  IF HasSteps(Head(list))
             THEN <<[startGMTMillis |-> WholeSeconds(Head(list).startGMT),
                     endGMTMillis |-> Head(list).endGMT,
                     steps |-> Head(list).steps]>> \o rest
             ELSE rest

\* The upserts of this run for a day.
UpsertsOf(day) == {j \in 1..Len(upserts) : upserts[j].day = day}

\* The i-th fetch of the run has been dealt with.
Processed(i) == i < Len(fetches) \/ pc \in {"loop", "persist", "done"}

\* Day d + 1 was dealt with as the scenario says: its k records with steps,
\* and only they, were passed to one insert (none when k = 0), and the day
\* cursor went on to day d + 2.
NextDayForwarded(list) ==
    /\ \A j \in UpsertsOf(BoundaryDay + 1) : upserts[j].data = StepsRecords(list)
    /\ Cardinality(UpsertsOf(BoundaryDay + 1)) =
          (IF StepsRecords(list) = << >> THEN 0 ELSE 1)
    /\ current_date >= BoundaryDay + 2

\* C17 as stated: the watermark is the 23:45 bucket of day d, day d + 1 has a
\* full set of buckets and has begun (nothing changed while the run ran or
\* since); the run that has ended forwarded the k
\* records of day d + 1 that have steps and moved the cursor to day d + 2.
C17_BoundaryScenario ==
    (/\ AtBoundary
     /\ pc = "done"
     /\ ~since
     /\ BoundaryDay + 1 <= today
     /\ garmin[BoundaryDay + 1].known
     /\ FullDay(garmin[BoundaryDay + 1].data))
    => NextDayForwarded(garmin[BoundaryDay + 1].data)

\* C17, amended: the run first fetches day d itself; it goes on to day d + 1
\* only after day d returned a list judged complete, of which it forwards
\* nothing; and when it then fetches a full day d + 1 it forwards the k
\* records that have steps, judges the day complete and moves the cursor to
\* day d + 2.
C17_BoundaryScenarioAfterDayD ==
    AtBoundary =>
        /\ fetches # << >> => fetches[1].day = BoundaryDay
        /\ UpsertsOf(BoundaryDay) = {}
        /\ Len(fetches) >= 2 =>
              /\ fetches[2].day = BoundaryDay + 1
              /\ is_one_day_steps_are_all_done(fetches[1].data)
        /\ (Len(fetches) >= 2 /\ Processed(2) /\ FullDay(fetches[2].data)) =>
              /\ NextDayForwarded(fetches[2].data)
              /\ is_one_day_steps_are_all_done(fetches[2].data)
        /\ (fetches # << >> /\ Processed(1)
                /\ is_one_day_steps_are_all_done(fetches[1].data)
                /\ BoundaryDay + 1 <= today /\ pc # "done") =>
              \/ Len(fetches) >= 2
              \/ pc = "loop" /\ current_date = BoundaryDay + 1

\* C17's case: from the 23:45 watermark of day d the run passed over day d,
\* forwarded a record of a full day d + 1 and moved the cursor to day d + 2.
C17_Witness ==
    /\ AtBoundary
    /\ Len(fetches) >= 2
    /\ Processed(2)
    /\ FullDay(fetches[2].data)
    /\ UpsertsOf(BoundaryDay + 1) # {}
    /\ current_date = BoundaryDay + 2

\* A string of digits is a number of milliseconds written in nanoseconds.
IsNanosOf(digits, millis) ==
    /\ Len(digits) = Len(DecimalDigits(millis)) + 6
    /\ SubSeq(digits, 1, Len(digits) - 6) = DecimalDigits(millis)
    /\ \A i \in (Len(digits) - 5)..Len(digits) : digits[i] = 0

\* The place of the "-" in a dataset id.
DashAt(id) == CHOOSE i \in 1..Len(id) : id[i] = Dash

\* C15: every insert_steps_data_list call names the dataset
\* "<start of the first record in ns>-<end of the last record in ns>" and
\* the fixed data source, with a body that holds the list's records as data
\* points of that data source; a call with a list that was patched before
\* makes the request made then, and its patch leaves the data source's
\* points as they were.
C15_DeterministicDatasetKey ==
    [][LET list == last_patch'.steps_data_list
           request == last_patch'.request
           id == request.datasetId
       IN  /\ IsNanosOf(SubSeq(id, 1, DashAt(id) - 1), list[1].startGMTMillis)
           /\ IsNanosOf(SubSeq(id, DashAt(id) + 1, Len(id)),
                        list[Len(list)].endGMTMillis)
           /\ request.dataSourceId = DataStreamId
           /\ request.body.dataSourceId = DataStreamId
           /\ Len(request.body.point) = Len(list)
           /\ \A i \in 1..Len(list) :
                 /\ IsNanosOf(request.body.point[i].startTimeNanos,
                              list[i].startGMTMillis)
                 /\ IsNanosOf(request.body.point[i].endTimeNanos,
                              list[i].endGMTMillis)
                 /\ request.body.point[i].value[1].intVal = list[i].steps
                 /\ request.body.point[i].originDataSourceId = DataStreamId
           /\ \A call \in patched :
                 call.steps_data_list = list =>
                     /\ call.request = request
                     /\ fit' = fit]_vars

\* C15's case: a list of two records was patched a second time, the first
\* patch having succeeded.
C15_Witness ==
    /\ last_patch.ok
    /\ last_patch.again
    /\ Len(last_patch.steps_data_list) = 2
    /\ fit # EmptyBag

\* ------------------------------------------------ name reconciliation
\* The name starts with the prefix: it is the prefix followed by something.
HasPrefix(name, prefix) ==
    \E rest \in 0..Len(name) :
        /\ Len(name) = Len(prefix) + rest
        /\ \A i \in 1..Len(prefix) : name[i] = prefix[i]

\* The name starts with one of the prefixes of the ignore list.
IgnoredName(name) ==
    \E i \in DOMAIN sync_ignore_list : HasPrefix(name, sync_ignore_list[i])

\* The keys the loop has been through, and whether it is through all.
Visited ==
    {k \in DOMAIN garmin_activities :
        Cardinality({j \in DOMAIN garmin_activities : j <= k}) <= synced}
SyncDone == synced = Cardinality(DOMAIN garmin_activities)

\* The rename calls made on the Strava activity of a key.
RenamesOf(k) ==
    {i \in DOMAIN renames : renames[i].activity_id = StravaId(k)}

\* The key is in both mappings, the Garmin name starts with no ignore
\* prefix, and the two names differ.
Qualifies(k) ==
    /\ k \in DOMAIN garmin_activities
    /\ k \in DOMAIN strava_activities
    /\ ~IgnoredName(garmin_activities[k].name)
    /\ garmin_activities[k].name # strava_activities[k].name

\* C18: a rename is issued for a key exactly when the key is in both
\* mappings, the Garmin name starts with no ignore prefix and the names
\* differ; the pass then makes exactly one call for the key, with the Strava
\* activity's id and the Garmin name, and no call for any other key.
C18_RenameRule ==
    /\ \A k \in Timestamps :
          /\ Cardinality(RenamesOf(k)) =
                IF k \in Visited /\ Qualifies(k) THEN 1 ELSE 0
          /\ \A i \in RenamesOf(k) :
                /\ renames[i].activity_id = strava_activities[k].id
                /\ renames[i].new_name = garmin_activities[k].name
    /\ \A i \in DOMAIN renames : \E k \in Timestamps : i \in RenamesOf(k)

\* A pass over two keys in both mappings, one that qualifies and one whose
\* names are equal, has ended.
C18_Witness ==
    /\ SyncDone
    /\ Len(renames) = 1
    /\ \E k, l \in DOMAIN garmin_activities \cap DOMAIN strava_activities :
          /\ Qualifies(k)
          /\ ~IgnoredName(garmin_activities[l].name)
          /\ garmin_activities[l].name = strava_activities[l].name

\* C19: no rename is issued for an activity whose Garmin name starts with a
\* prefix of the ignore list, whatever its Strava name is; with an empty
\* list no name is ignored.
C19_IgnoredNeverRenamed ==
    /\ \A k \in DOMAIN garmin_activities :
          IgnoredName(garmin_activities[k].name) => RenamesOf(k) = {}
    /\ \A i \in DOMAIN renames : ~IgnoredName(renames[i].new_name)
    /\ sync_ignore_list = << >> =>
          \A k \in Visited \cap DOMAIN strava_activities :
              garmin_activities[k].name # strava_activities[k].name
                  => RenamesOf(k) # {}

\* The pass has gone through an activity whose Garmin name is longer than
\* the ignore prefix it starts with and differs from the Strava name.
C19_Witness ==
    /\ SyncDone
    /\ \E k \in DOMAIN garmin_activities \cap DOMAIN strava_activities :
          /\ IgnoredName(garmin_activities[k].name)
          /\ garmin_activities[k].name \notin
                {sync_ignore_list[i] : i \in DOMAIN sync_ignore_list}
          /\ garmin_activities[k].name # strava_activities[k].name
          /\ ~IgnoredName(strava_activities[k].name)
          /\ RenamesOf(k) = {}

\* C20 as stated: for a key in both mappings, once the pass is over, the
\* Garmin name has been applied to the Strava activity exactly when the
\* names differ and the Strava name starts with no ignore prefix.
C20_AppliedUnlessDestinationIgnored ==
    SyncDone =>
        \A k \in DOMAIN garmin_activities \cap DOMAIN strava_activities :
            RenamesOf(k) # {} <=>
                /\ garmin_activities[k].name # strava_activities[k].name
                /\ ~IgnoredName(strava_activities[k].name)

\* C20, amended: for a key in both mappings, once the pass is over, the
\* Garmin name has been applied to the Strava activity exactly when the
\* names differ and the Garmin name starts with no ignore prefix; the
\* prefixes the Strava name starts with play no part.
C20_AppliedUnlessSourceIgnored ==
    SyncDone =>
        \A k \in DOMAIN garmin_activities \cap DOMAIN strava_activities :
            /\ RenamesOf(k) # {} <=>
                  /\ garmin_activities[k].name # strava_activities[k].name
                  /\ ~IgnoredName(garmin_activities[k].name)
            /\ \A i \in RenamesOf(k) :
                  renames[i].new_name = garmin_activities[k].name

\* A pass has renamed a Strava activity whose own name starts with an
\* ignore prefix.
C20_Witness ==
    /\ SyncDone
    /\ \E k \in DOMAIN garmin_activities \cap DOMAIN strava_activities :
          /\ IgnoredName(strava_activities[k].name)
          /\ ~IgnoredName(garmin_activities[k].name)
          /\ RenamesOf(k) # {}

\* C21: a rename call that fails does not stop the pass: every key the
\* loop has gone through that qualifies has had its rename call, whatever
\* the calls before it returned, and the loop goes through every key: it is
\* over only when it has visited all of them.
C21_RenameFailureIsolated ==
    /\ \A k \in Visited : Qualifies(k) => Cardinality(RenamesOf(k)) = 1
    /\ Len(renames) = Cardinality({k \in Visited : Qualifies(k)})
    /\ SyncDone <=> Visited = DOMAIN garmin_activities
    /\ ~SyncDone => ENABLED SyncNext

\* The pass is over, its first rename call failed, and a later key has had
\* its call.
C21_Witness ==
    /\ SyncDone
    /\ Len(renames) = 2
    /\ ~renames[1].ok
    /\ renames[2].activity_id # renames[1].activity_id

\* What a sequence of rename calls asked for: activity id and new name.
Asked(calls) ==
    [i \in DOMAIN calls |-> <<calls[i].activity_id, calls[i].new_name>>]

\* C22: the calls of a run depend on the two snapshots and the ignore list
\* only: a run over the snapshots of the run before (none of whose calls
\* went through) makes the same calls again, and a run after one whose
\* calls all went through makes no call.
C22_IdempotentAndConverges ==
    passes >= 1 =>
        /\ (\A i \in DOMAIN earlier : earlier[i].ok) => renames = << >>
        /\ SyncDone /\ (\A i \in DOMAIN earlier : ~earlier[i].ok)
              => Asked(renames) = Asked(earlier)
        /\ SyncDone =>
              {Asked(renames)[i] : i \in DOMAIN renames} =
                  {<<StravaId(k), garmin_activities[k].name>> :
                      k \in {l \in Timestamps : Qualifies(l)}}

\* The second run is over and made no call; the first made two, and both
\* went through.
C22_Witness ==
    /\ passes = 1
    /\ SyncDone
    /\ Len(earlier) = 2
    /\ \A i \in DOMAIN earlier : earlier[i].ok
    /\ renames = << >>

\* The orders the keys of a mapping can be inserted or gone through in.
Orders(activities) ==
    {p \in [1..Cardinality(DOMAIN activities) -> DOMAIN activities] :
        \A i, j \in DOMAIN p : p[i] = p[j] => i = j}
Range(seq) == {seq[i] : i \in DOMAIN seq}

\* The order the run goes through the Garmin mapping in.
RunOrder ==
    [i \in 1..Cardinality(DOMAIN garmin_activities) |->
        KeyAt(garmin_activities, i)]

\* C23: whatever order the keys of the Garmin mapping were inserted in, the
\* sorted mapping is the same, and whatever order the loop went through
\* them in, the set of calls (Strava id, new name) would be the one the run
\* makes; a key matches by equality only.
C23_OrderIndependent ==
    /\ \A p \in Orders(garmin_activities) :
          /\ sorted_items(p) = RunOrder
          /\ Range(sync_calls(p, garmin_activities, strava_activities,
                              sync_ignore_list))
                = Range(sync_calls(RunOrder, garmin_activities,
                                   strava_activities, sync_ignore_list))
    /\ \A p \in Orders(strava_activities) :
          sorted_items(p) =
              [i \in 1..Cardinality(DOMAIN strava_activities) |->
                  KeyAt(strava_activities, i)]
    /\ SyncDone =>
          Asked(renames) = sync_calls(RunOrder, garmin_activities,
                                      strava_activities, sync_ignore_list)
    /\ \A i \in DOMAIN renames :
          \E k \in DOMAIN garmin_activities \cap DOMAIN strava_activities :
              renames[i].activity_id = strava_activities[k].id

\* The run made two calls, which another order of the Garmin mapping would
\* have made the other way round.
C23_Witness ==
    /\ SyncDone
    /\ Len(renames) = 2
    /\ \E p \in Orders(garmin_activities) :
          /\ p # RunOrder
          /\ sync_calls(p, garmin_activities, strava_activities,
                        sync_ignore_list) # Asked(renames)

\* ------------------------------------------------- the requested window
\* The instants an activity can start at.
ActivityStarts == 0..((WindowDays + MaxClockDays + 1) * HoursPerDay)

\* Both snapshots have been asked for.
BothRequested == garmin_request # NoRequest /\ strava_request # NoRequest

\* C24: the two snapshots of a run are asked for over the same window: the
\* Garmin request names the UTC+8 dates of now - 7 days and of now, the
\* Strava request the instants these two dates begin at in UTC+8, so that
\* the UTC+8 date of an activity's start is in [after_date, before_date)
\* exactly when the start is in [after, before).  (What the two services
\* do with the bounds they are given is not part of this repository.)
C24_IdenticalWindow ==
    BothRequested =>
        /\ garmin_request.before_date = garmin_request.after_date + WindowDays
        /\ strava_request.after =
              garmin_request.after_date * HoursPerDay - UTC8
        /\ strava_request.before =
              garmin_request.before_date * HoursPerDay - UTC8
        /\ \A start \in ActivityStarts :
              LET date == CHOOSE d \in 0..(WindowDays + MaxClockDays + 2) :
                              /\ d * HoursPerDay <= start + UTC8
                              /\ start + UTC8 < (d + 1) * HoursPerDay
              IN  (/\ garmin_request.after_date <= date
                   /\ date < garmin_request.before_date)
                  <=> (/\ strava_request.after <= start
                       /\ start < strava_request.before)

\* Both snapshots were asked for at an hour that is on one date in UTC and
\* on the next in UTC+8.
C24_Witness ==
    /\ BothRequested
    /\ now_utc \div HoursPerDay < garmin_request.before_date
    /\ strava_request.before < now_utc

\* ------------------------------------------------------ change detection
\* The invocation is over.
InvocationOver == notify_pc \in {"done", "error"}

\* The messages and the gh calls of this invocation.
MessagesNow ==
    {i \in DOMAIN line_messages : line_messages[i].invocation = invocation}
PersistsNow == {i \in DOMAIN persists : persists[i].invocation = invocation}

\* There is no previous snapshot, or it differs from the new one in its
\* date, its signal or its score.
Changed ==
    \/ ndc_index_env.kind # "object"
    \/ ndc_index_env.latest_date # new_data.latest_date
    \/ ndc_index_env.latest_signal # new_data.latest_signal
    \/ ndc_index_env.latest_signal_score # new_data.latest_signal_score

\* There is a previous score.
HasOldScore ==
    /\ ndc_index_env.kind = "object"
    /\ ndc_index_env.latest_signal_score # NoneValue

\* LINE and GitHub Actions are both set up.
Configured == line_configured /\ github_actions

\* C25: an invocation hands a message to LINE and calls gh variable set
\* exactly when there is no previous snapshot or it differs from the new one
\* in date, signal or score; when the three are equal it does neither.
C25_ChangeDetection ==
    Configured /\ InvocationOver =>
        /\ MessagesNow # {} <=> Changed
        /\ PersistsNow # {} <=> Changed

\* The same, for a previous snapshot that has a score.
ChangeDetectionWithScore ==
    Configured /\ InvocationOver
               /\ (ndc_index_env.kind = "object" => HasOldScore) =>
        /\ MessagesNow # {} <=> Changed
        /\ PersistsNow # {} <=> Changed

\* The trend a message should carry.
Trend(old, new) ==
    IF old.kind # "object" THEN "none"
    ELSE IF old.latest_signal_score = NoneValue THEN "none"
    ELSE IF new.latest_signal_score > old.latest_signal_score THEN "up"
    ELSE IF new.latest_signal_score < old.latest_signal_score THEN "down"
    ELSE "none"

\* C26: a message carries 'up' when the new score is greater than the old
\* one, 'down' when it is less, 'none' when they are equal or there is no
\* old score, and in each of these cases, a previous snapshot that has no
\* score included, the message is sent.
C26_TrendIndicator ==
    /\ \A i \in DOMAIN line_messages :
          line_messages[i].trend =
              Trend(line_messages[i].old, line_messages[i].new)
    /\ line_configured /\ InvocationOver /\ Changed => MessagesNow # {}

\* The trend of every message sent is right, and a change is always
\* notified when the previous snapshot has a score.
TrendOfSentMessages ==
    /\ \A i \in DOMAIN line_messages :
          line_messages[i].trend =
              Trend(line_messages[i].old, line_messages[i].new)
    /\ line_configured /\ InvocationOver /\ Changed
            /\ (ndc_index_env.kind = "object" => HasOldScore)
          => MessagesNow # {}

\* C27: invoked again and again with the same new snapshot, from a stored
\* snapshot that is absent or different, the notifier sends exactly one
\* message, in the first invocation, and none later.
C27_NoOpAcrossRuns ==
    Configured =>
        /\ \A i \in DOMAIN line_messages : line_messages[i].invocation = 0
        /\ Len(line_messages) <= 1
        /\ invocation = 0 /\ InvocationOver /\ Changed
              => Len(line_messages) = 1

\* The same when the previous snapshot has a score and every gh variable
\* set so far has succeeded.
NoOpAfterPersisted ==
    Configured /\ (\A i \in DOMAIN persists : persists[i].ok)
               /\ (ndc_index_env.kind = "object" => HasOldScore) =>
        /\ \A i \in DOMAIN line_messages : line_messages[i].invocation = 0
        /\ Len(line_messages) <= 1
        /\ invocation = 0 /\ InvocationOver /\ Changed
              => Len(line_messages) = 1

\* ------------------------------------------------ the date-cursor scripts
\* The list has no entry to forward, and every start in it parses.
NothingToForward(list) ==
    \A i \in 1..Len(list) :
        list[i].steps = 0 /\ list[i].startGMT # BadString

\* C28: every insert_steps_data_list call of a sync loop gets a list that
\* is not empty, and a fetched day with nothing to forward does not keep the
\* cursor from being persisted.
C28_UpsertPrecondition ==
    /\ \A i \in DOMAIN cursor_inserts : cursor_inserts[i] # << >>
    /\ \A i \in DOMAIN cursor_fetches :
          /\ cursor_fetches[i].data # << >>
          /\ NothingToForward(cursor_fetches[i].data)
          => cursor_pc # "caught"

\* The same for the loop of garmin-steps-syncer, which tests the filtered
\* list before the call (lines 407-414).
SyncerUpsertsNonEmpty ==
    \A i \in DOMAIN upserts : upserts[i].data # << >>

\* The last entry of the list starts at 23:45 UTC+8.
EndsAtLastQuarter(list) ==
    /\ list # << >>
    /\ list[Len(list)].startGMT # BadString
    /\ (list[Len(list)].startGMT + TaipeiOffset) % MsPerDay = LastQuarter

\* The fetches of a day.
CursorFetchesOf(day) ==
    {i \in DOMAIN cursor_fetches : cursor_fetches[i].day = day}

\* C29: in the two date-cursor scripts a run that reaches the persist step
\* from start date D writes a date D' with D <= D' <= max(D, today + 1);
\* every day from D up to D' - 1 was fetched, not empty and complete; D' is
\* later than today or a day whose fetch was empty or incomplete; and the
\* cursor is never past a day that was fetched incomplete.
C29_DateCursor ==
    /\ \A i \in DOMAIN cursor_fetches :
          cursor_fetches[i].day < cursor_date
              => EndsAtLastQuarter(cursor_fetches[i].data)
    /\ cursor_pc = "done" =>
          /\ last_synced_date <= cursor_file
          /\ cursor_file <= IF last_synced_date > cursor_today + 1
                            THEN last_synced_date ELSE cursor_today + 1
          /\ \A d \in last_synced_date..(cursor_file - 1) :
                /\ Cardinality(CursorFetchesOf(d)) = 1
                /\ \A i \in CursorFetchesOf(d) :
                      EndsAtLastQuarter(cursor_fetches[i].data)
          /\ \/ cursor_file > cursor_today
             \/ /\ Cardinality(CursorFetchesOf(cursor_file)) = 1
                /\ \A i \in CursorFetchesOf(cursor_file) :
                      ~EndsAtLastQuarter(cursor_fetches[i].data)

\* A run went past a complete day, stopped at the next day, which was not
\* later than today and had a list that was not complete, and wrote it.
C29_Witness ==
    /\ cursor_pc = "done"
    /\ cursor_file = last_synced_date + 1
    /\ cursor_file <= cursor_today
    /\ Len(cursor_fetches) = 2
    /\ cursor_fetches[2].data # << >>

\* ------------------------------------------------------------ termination
\* The day the run's cursor starts at.
StartDay == DateOf(astimezone_taipei(StartWatermark))

\* The run is in its loop or past it.
LoopReached == pc \in {"loop", "fetched", "persist", "done"}

\* The days of the run's fetches are the start day and the days after it,
\* one by one, none later than today.
FetchesBounded ==
    LoopReached =>
        /\ \A i \in DOMAIN fetches : fetches[i].day = StartDay + i - 1
        /\ \A i \in DOMAIN fetches : fetches[i].day <= today
        /\ Len(fetches) <= IF StartDay > today THEN 0
                           ELSE today - StartDay + 1

\* An iteration ends the loop with the cursor where it was, or moves the
\* cursor on by one day.
IterationStep ==
    pc = "fetched" /\ pc' # "fetched" =>
        \/ pc' = "persist" /\ current_date' = current_date
        \/ pc' = "loop" /\ current_date' = current_date + 1

\* C30: the day loop ends: every iteration stops the loop or moves the day
\* cursor on by exactly one day, a run fetches each day at most once, at
\* most today - start day + 1 days in all and none when the watermark's day
\* is later than today, and a run that is in its loop leaves it.
C30_LoopTerminates ==
    /\ []FetchesBounded
    /\ [][IterationStep]_vars
    /\ InLoop ~> ~InLoop

\* A run fetched every day from its start day to today, more than one, and
\* left the loop.
C30_Witness ==
    /\ pc = "persist"
    /\ StartDay < today
    /\ Len(fetches) = today - StartDay + 1
    /\ current_date > today

\* --------------------------------------------------- watermark and writes
\* The watermark a run that called insert ends with: the start of the last
\* entry of the raw list of the last day an insert was called for, or, when
\* that start does not parse, the watermark that day was filtered with.
WatermarkOfLastUpsert ==
    LET last_upsert == upserts[Len(upserts)]
        last_raw == last_upsert.raw[Len(last_upsert.raw)]
    IN  IF last_raw.startGMT # BadString THEN last_raw.startGMT
        ELSE last_upsert.before

\* Inside a run the watermark changes only in a step that calls insert.
WatermarkChangesWithUpsert ==
    InLoop /\ last_startGMT_date' # last_startGMT_date =>
        /\ pc = "fetched"
        /\ Len(upserts') = Len(upserts) + 1
        /\ upserts'[Len(upserts')].day = current_date

\* What the watermark is, in the loop and in the file.
WatermarkFollowsUpserts ==
    /\ InLoop \/ pc = "persist" =>
          last_startGMT_date =
              IF upserts = << >> THEN StartWatermark
              ELSE WatermarkOfLastUpsert
    /\ pc = "done" =>
          new_last_startGMT_file =
              IF upserts = << >> THEN WholeSeconds(StartWatermark)
              ELSE WholeSeconds(WatermarkOfLastUpsert)

NanosLeq(a, b) ==
    \/ Len(a) < Len(b)
    \/ /\ Len(a) = Len(b)
       /\ \/ a = b
          \/ \E i \in 1..Len(a) :
                /\ a[i] < b[i]
                /\ \A j \in 1..(i - 1) : a[j] = b[j]

\* The range the body of the latest patch names covers its points, and
\* every point ends after it starts.
RangeCoversPoints ==
    LET body == last_patch.request.body
    IN  \A i \in 1..Len(body.point) :
            /\ NanosLeq(body.minStartTimeNs, body.point[i].startTimeNanos)
            /\ NanosLeq(body.point[i].endTimeNanos, body.maxEndTimeNs)
            /\ NanosLeq(body.point[i].startTimeNanos,
                        body.point[i].endTimeNanos)
            /\ body.point[i].startTimeNanos # body.point[i].endTimeNanos

\* C33: in every patch insert_steps_data_list issues, minStartTimeNs is at
\* most the start of every point of the body, maxEndTimeNs is at least the
\* end of every point, and every point ends after it starts.
C33_DatasetRangeCoversPoints ==
    last_patch # NoPatch => RangeCoversPoints

\* The same for a list that is in start-time order.
RangeCoversPointsInOrder ==
    (/\ last_patch # NoPatch
     /\ \A i, j \in 1..Len(last_patch.steps_data_list) :
           i <= j => /\ last_patch.steps_data_list[i].startGMTMillis
                          <= last_patch.steps_data_list[j].startGMTMillis
                     /\ last_patch.steps_data_list[i].endGMTMillis
                          <= last_patch.steps_data_list[j].endGMTMillis)
        => RangeCoversPoints

\* ------------------------------------------------- notify, then persist
\* This invocation found a change and went through to the end.
NotifiedAndOver ==
    /\ notify_pc = "done"
    /\ should_update(ndc_index_env, new_data)

\* The stored snapshot changes only in the gh variable set step of an
\* invocation in GitHub Actions, after the message of that invocation, if
\* LINE is set up, has been handed over.
PersistAfterNotify ==
    ndc_index' # ndc_index =>
        /\ notify_pc = "persist"
        /\ github_actions
        /\ line_configured => MessagesNow # {}
        /\ line_messages' = line_messages
        /\ ndc_index' = new_data_json(new_data)

\* An invocation whose update was skipped or failed leaves the stored
\* snapshot as the invocation got it, keeps its message, and leaves a
\* stored snapshot in which the same new one is a change again.
FailedPersistKeepsChange ==
    NotifiedAndOver /\ (\A i \in PersistsNow : ~persists[i].ok) =>
        /\ ndc_index = ndc_index_env
        /\ line_configured => MessagesNow # {}
        /\ should_update(ndc_index, new_data)

\* Outside GitHub Actions no gh variable set is run.
PersistOnlyInGitHubActions ==
    ~github_actions => persists = << >>

\* C36: the notifications of an invocation are sent before the stored
\* snapshot is updated; it is updated only under GitHub Actions; an update
\* that fails or is skipped leaves it unchanged and does not cancel the
\* notification, so the next invocation with the same new snapshot finds
\* the same change again.
C36_NotifyThenPersist ==
    /\ [](FailedPersistKeepsChange /\ PersistOnlyInGitHubActions)
    /\ [][PersistAfterNotify]_vars

\* The second invocation has sent the message of the first again, after a
\* gh variable set that failed.
C36_Witness ==
    /\ invocation = 1
    /\ NotifiedAndOver
    /\ Len(line_messages) = 2
    /\ line_messages[2].old = line_messages[1].old
    /\ Len(persists) >= 1
    /\ ~persists[1].ok

\* ------------------------------------------- a stored text that is not JSON
\* C38: when NDC_INDEX is set to a text that is not JSON, the invocation
\* treats the snapshot as changed: its message, when LINE is set up, has
\* the stored text as it is for the old value and no trend, and in GitHub
\* Actions it runs gh variable set with the new snapshot.
C38_MalformedStoredSnapshot ==
    InvocationOver /\ ndc_index_env \in NotJson =>
        /\ notify_pc = "done"
        /\ line_configured =>
              /\ MessagesNow # {}
              /\ \A i \in MessagesNow :
                    /\ line_messages[i].old_data_str = ndc_index_env
                    /\ line_messages[i].trend = "none"
        /\ github_actions => PersistsNow # {}
        /\ \A i \in PersistsNow : persists[i].ok =>
              ndc_index = new_data_json(new_data)

\* An invocation that got a text that is not JSON has sent its message and
\* overwritten the stored value.
C38_Witness ==
    /\ InvocationOver
    /\ ndc_index_env \in NotJson
    /\ MessagesNow # {}
    /\ PersistsNow # {}
    /\ ndc_index = new_data_json(new_data)

\* ------------------------------------------------------- the latest row
\* The row qualifies: its signal and its score are not '-' and its score
\* is the text of an integer.
QualifyingRow(row) ==
    /\ row.signal # <<"-">>
    /\ row.score # <<"-">>
    /\ ~int_raises(row.score)
QualifyingRows == {i \in DOMAIN csv_rows : QualifyingRow(csv_rows[i])}

\* C37: the snapshot is taken from a qualifying row of the CSV whose Date is
\* the greatest, in the order of strings, among the qualifying rows, with
\* the score as an integer; when no row qualifies main returns with no
\* snapshot, no message and no gh variable set.
C37_LatestRowSelection ==
    /\ csv_pc = "latest" =>
          /\ \E i \in QualifyingRows :
                /\ latest_row.Date = csv_rows[i].Date
                /\ latest_row.signal = csv_rows[i].signal
                /\ latest_row.score = int(csv_rows[i].score)
          /\ \A j \in QualifyingRows :
                ~str_less(latest_row.Date, csv_rows[j].Date)
          /\ new_data = [latest_date |-> latest_row.Date,
                         latest_signal |-> latest_row.signal,
                         latest_signal_score |-> latest_row.score]
    /\ csv_pc = "returned" =>
          /\ QualifyingRows = {}
          /\ new_data = << >>
          /\ line_messages = << >>
          /\ persists = << >>
    /\ csv_pc \in {"latest", "returned"} =>
          (csv_pc = "returned" <=> QualifyingRows = {})

\* The latest row is the row of Date '9', of score 10, although a row of
\* Date '10' qualifies and comes first, and a row of Date '11' does not
\* qualify.
C37_Witness ==
    /\ csv_pc = "latest"
    /\ Len(csv_rows) = 3
    /\ csv_rows[1].Date = <<"1", "0">> /\ QualifyingRow(csv_rows[1])
    /\ csv_rows[2].Date = <<"9">> /\ csv_rows[2].score = <<"1", "0">>
    /\ csv_rows[3].Date = <<"1", "1">> /\ ~QualifyingRow(csv_rows[3])
    /\ latest_row.Date = <<"9">>
    /\ latest_row.score = 10

\* No row qualifies and main has returned.
NoRowQualifies ==
    /\ csv_pc = "returned"
    /\ csv_rows # << >>

\* ------------------------------------------------ the gates of the syncer
\* A fetch that failed or gave an empty mapping.
GarminFetchUseless ==
    garmin_fetch.called /\ (~garmin_fetch.success \/ garmin_activities = << >>)
StravaFetchUseless ==
    strava_fetch.called /\ (~strava_fetch.success \/ strava_activities = << >>)

\* Where main is after a fetch that failed or gave nothing.
RunEnded ==
    window_pc \in {"garmin_failed", "no_garmin", "strava_failed", "no_strava",
                   "error"}

FetchesGated ==
    /\ strava_request # NoRequest <=> strava_fetch.called
    /\ strava_fetch.called =>
          /\ garmin_fetch.called
          /\ garmin_fetch.success
          /\ garmin_activities # << >>
    /\ renames # << >> \/ window_pc = "synced" =>
          /\ garmin_fetch.success /\ garmin_activities # << >>
          /\ strava_fetch.success /\ strava_activities # << >>
    /\ GarminFetchUseless => ~strava_fetch.called
    /\ GarminFetchUseless \/ StravaFetchUseless =>
          /\ RunEnded
          /\ renames = << >>

\* A run that ended after a fetch does nothing more.
EndedRunStays == ~RunEnded

\* C34: the Strava snapshot is fetched only after a Garmin fetch that
\* succeeded and gave a mapping that is not empty; no rename is made unless
\* both fetches succeeded and both mappings are not empty; after a fetch, of
\* either service, that failed or gave nothing, the run ends and makes no
\* rename call.
C34_NameSyncerGating ==
    /\ []FetchesGated
    /\ [][EndedRunStays]_vars

\* A run renamed an activity, and did so after two fetches that succeeded.
C34_Witness ==
    /\ window_pc = "synced"
    /\ renames # << >>
    /\ garmin_fetch.success
    /\ strava_fetch.success

\* A run ended after a Strava fetch that gave nothing.
StravaGaveNothing ==
    /\ window_pc = "no_strava"
    /\ garmin_activities # << >>

\* ------------------------------------------------- the keys of a snapshot
\* The activities of a list that started at a timestamp.
GarminListedAt(k) ==
    {i \in DOMAIN garmin_fetch.activities :
        garmin_fetch.activities[i].startTimeGMT = k}
StravaListedAt(k) ==
    {i \in DOMAIN strava_fetch.activities :
        formatted_start_date(strava_fetch.activities[i]) = k}
Last(S) == CHOOSE i \in S : \A j \in S : j <= i

\* A mapping has an entry for a timestamp exactly when an activity listed
\* started then, and the entry is of the activity listed last.
GarminKeepsLast ==
    /\ DOMAIN garmin_activities = {k \in Timestamps : GarminListedAt(k) # {}}
    /\ \A k \in DOMAIN garmin_activities :
          LET activity == garmin_fetch.activities[Last(GarminListedAt(k))]
          IN  garmin_activities[k] = [id |-> activity.activityId,
                                      name |-> activity.activityName]
StravaKeepsLast ==
    /\ DOMAIN strava_activities = {k \in Timestamps : StravaListedAt(k) # {}}
    /\ \A k \in DOMAIN strava_activities :
          LET activity == strava_fetch.activities[Last(StravaListedAt(k))]
          IN  strava_activities[k] = [id |-> activity.id,
                                      name |-> activity.name]

\* The items the loop of sync_name_from_garmin_to_strava goes through have
\* every key once.
ItemsHaveDistinctKeys ==
    LET items == garmin_items(garmin_fetch.activities)
    IN  /\ {items[i] : i \in DOMAIN items} = DOMAIN garmin_activities
        /\ \A i, j \in DOMAIN items : items[i] = items[j] => i = j

\* At most one call is made for a key.
OneRenamePerKey ==
    \A k \in DOMAIN strava_activities :
        Cardinality({i \in DOMAIN renames :
                        renames[i].activity_id = strava_activities[k].id}) <= 1

\* C35: a snapshot has at most one entry for a start timestamp; when
\* several activities listed have one timestamp, the entry is the one of the
\* activity listed last; a run makes at most one rename call for a key.
C35_KeyUniqueness ==
    /\ GarminKeepsLast
    /\ StravaKeepsLast
    /\ ItemsHaveDistinctKeys
    /\ OneRenamePerKey

\* Garmin listed two activities of one start, of different names; Strava
\* listed two of that start too; the one call made gave the Strava activity
\* listed last the name of the Garmin activity listed last.
C35_Witness ==
    /\ window_pc = "synced"
    /\ Len(garmin_fetch.activities) = 2
    /\ garmin_fetch.activities[1].startTimeGMT
          = garmin_fetch.activities[2].startTimeGMT
    /\ garmin_fetch.activities[1].activityName
          # garmin_fetch.activities[2].activityName
    /\ Len(strava_fetch.activities) = 2
    /\ strava_fetch.activities[1].start_date
          = strava_fetch.activities[2].start_date
    /\ Len(renames) = 1
    /\ renames[1].activity_id = strava_fetch.activities[2].id
    /\ renames[1].new_name = garmin_fetch.activities[2].activityName

\* ------------------------------------- the watermark written and read again
\* The watermark with its fraction of a second dropped.
WholeSecond(dt) == [dt EXCEPT !.microsecond = 0]

\* What the next run parses is the watermark, to the second.
ReadsBackToTheSecond ==
    roundtrip_pc \in {"parsed", "exit"} =>
        /\ roundtrip_pc = "parsed"
        /\ reparsed = WholeSecond(watermark)

\* C31: for every watermark W that is a whole second in UTC, the text the
\* persist step writes ('%Y-%m-%dT%H:%M:%S.0') is one that
\* parse_datetime_with_timezone parses, and it parses it to W.
C31_WatermarkRoundTrip ==
    roundtrip_pc \in {"parsed", "exit"} /\ watermark.microsecond = 0 =>
        /\ roundtrip_pc = "parsed"
        /\ reparsed = watermark

\* The last second of a leap day was written and read.
C31_Witness ==
    /\ roundtrip_pc = "parsed"
    /\ watermark.microsecond = 0
    /\ watermark.month = 2 /\ watermark.day = 29
    /\ watermark.hour = 23 /\ watermark.minute = 59 /\ watermark.second = 59
    /\ watermark_text = <<"2", "0", "2", "4", "-", "0", "2", "-", "2", "9",
                          "T", "2", "3", ":", "5", "9", ":", "5", "9", ".",
                          "0">>
    /\ reparsed = watermark

====
